---- MODULE Spec2Model ----
(***************************************************************************)
(* Progeny: a genetic-programming engine over block programs.              *)
(*                                                                         *)
(* The model follows the TypeScript engine (client/functions/program.ts,   *)
(* client/functions/genetic-algorithm.ts, first version in each file) and  *)
(* the block catalog of blocks.js (the catalog whose entries have the      *)
(* `inputs` / `output` / `mutations` shape that program.ts reads).  The    *)
(* catalog's output tag of a numeric reporter is written "number" here     *)
(* wherever the sources write 'number' or 'Number'.  The section on block  *)
(* objects also models the crossover of the first version of               *)
(* genetic-algorithm.js, which builds its child without copying.           *)
(*                                                                         *)
(* JavaScript values are tagged records, so that values of different       *)
(* JavaScript types can be compared:                                       *)
(*   [t |-> "num", v |-> n]   a number literal                             *)
(*   [t |-> "str", v |-> s]   a string (variable name or operator token)   *)
(*   [t |-> "bool", v |-> b]  a boolean literal                            *)
(*   [t |-> "null"], [t |-> "undef"]                                       *)
(*   [t |-> "arr", a |-> <<...>>]  an array                                *)
(*   [t |-> "blk", blockName, inputs, var, value, condition, actions,      *)
(*    elseActions]            an object; absent properties are Undef       *)
(***************************************************************************)
EXTENDS Integers, Sequences, FiniteSets, TLC

\* A single call of an operation of the library and what it returned
VARIABLES call, ret
\* Progeny.run: the position in run, its parameters (populationSize,
\* maxGenerations, trials), this.population, the locals newPopulation, trial,
\* gen, bestProgram and bestFitness, what run returned, the number of
\* select calls made so far, and the trialBest and trialFitness of every
\* trial so far, the locals of the last pass of the offspring loop
\* (parent1, parent2, mutationCount), and of the trial's last select call
\* that left a survivor: the top-ranked survivor, whether it had the highest
\* fitness of the evaluated population and whether every fitness was a number
VARIABLES pc, config, population, newPopulation, trial, gen, bestProgram,
          bestFitness, returned, selectCount, trialResults, breeding,
          lastSelect

runVars == <<pc, config, population, newPopulation, trial, gen, bestProgram,
             bestFitness, returned, selectCount, trialResults, breeding,
             lastSelect>>
vars == <<call, ret, runVars>>

-----------------------------------------------------------------------------
(* JavaScript values *)

Undef == [t |-> "undef"]
Null == [t |-> "null"]
Num(n) == [t |-> "num", v |-> n]
Str(s) == [t |-> "str", v |-> s]
Bool(b) == [t |-> "bool", v |-> b]
Arr(s) == [t |-> "arr", a |-> s]

Obj(name, ins, var, value, cond, acts, els) ==
  [t |-> "blk", blockName |-> name, inputs |-> ins, var |-> var,
   value |-> value, condition |-> cond, actions |-> acts, elseActions |-> els]

\* { blockName: name, inputs: [...] }
Block(name, ins) == Obj(name, Arr(ins), Undef, Undef, Undef, Undef, Undef)
\* { blockName: name }
BlockNoInputs(name) == Obj(name, Undef, Undef, Undef, Undef, Undef, Undef)
\* { blockName: 'set', var: v, value: e }
SetBlock(v, e) == Obj("set", Undef, Str(v), e, Undef, Undef, Undef)
\* { blockName: 'return', inputs: [e] }
ReturnBlock(e) == Obj("return", Arr(<<e>>), Undef, Undef, Undef, Undef, Undef)
\* { blockName: 'if', condition: c, actions: [...] }
IfBlock(c, acts) == Obj("if", Undef, Undef, Undef, c, Arr(acts), Undef)
\* { blockName: 'ifElse', condition: c, actions: [...], elseActions: [...] }
IfElseBlock(c, acts, els) == Obj("ifElse", Undef, Undef, Undef, c, Arr(acts), Arr(els))

IsNum(x) == x.t = "num"
IsStr(x) == x.t = "str"
IsBool(x) == x.t = "bool"
IsArr(x) == x.t = "arr"
IsObj(x) == x.t = "blk"
IsNullish(x) == x.t \in {"null", "undef"}

\* The canonical { blockName: 'return', inputs: ['out'] }
ReturnOut == ReturnBlock(Str("out"))

-----------------------------------------------------------------------------
(* Names.  Strings cannot be taken apart, so the strings the model uses are *)
(* listed with the two properties the code asks of them.                   *)

\* strings matching /^(out|v[0-9]+|b[0-9]+)$/
DynamicVarNames == {"out", "v0", "v1", "v2", "v3", "v4", "v5", "v6", "b0", "b1"}
\* strings s with s.startsWith('b')
BPrefixed == {"b0", "b1", "bogus"}
\* strings s with s.trim() === ''
BlankStrings == {"", " "}

startsWithB(s) == s \in BPrefixed

variables == <<"out", "v0", "v1", "v2">>
\* the integer members of `constants` (the list also holds 0.1 and 0.5, which
\* no check below draws)
constants == <<-10, -5, -1, 0, 1, 2, 5, 10>>
booleanConstants == <<TRUE, FALSE>>
operators == <<"==", "!=", ">", ">=", "<", "<=">>

Range(s) == {s[i] : i \in DOMAIN s}

-----------------------------------------------------------------------------
(* The block catalog (blocks.js) *)

\* the slot type "'=='|'!='|'>'|'>='|'<'|'<='" that isValidValue knows
OpsType == "'=='|'!='|'>'|'>='|'<'|'<='"
\* the slot type compare declares in blocks.js: an array of the six tokens
OpsArrayType == "[ '==', '!=', '>', '>=', '<', '<=' ]"

Def(ins, out) == [hasInputs |-> TRUE, inputs |-> ins, output |-> out]
DefNoInputs(out) == [hasInputs |-> FALSE, inputs |-> <<>>, output |-> out]

blockDefs ==
  [k \in {"set", "get", "add", "subtract", "multiply", "divide", "power",
          "modulo", "absolute", "negate", "compare", "and", "or", "not",
          "if", "ifElse", "pi", "e"} |->
     CASE k = "set" -> Def(<<"variable", "value">>, "")
       [] k = "get" -> Def(<<"variable">>, "value")
       [] k \in {"add", "subtract", "multiply", "divide", "power", "modulo"} ->
            Def(<<"number", "number">>, "number")
       [] k \in {"absolute", "negate"} -> Def(<<"number">>, "number")
       [] k = "compare" -> Def(<<"number", "number", OpsArrayType>>, "boolean")
       [] k \in {"and", "or"} -> Def(<<"boolean", "boolean">>, "boolean")
       [] k = "not" -> Def(<<"boolean">>, "boolean")
       [] k = "if" -> Def(<<"boolean", "action[]">>, "")
       [] k = "ifElse" -> Def(<<"boolean", "action[]", "action[]">>, "")
       [] k \in {"pi", "e"} -> DefNoInputs("number")]

HasDef(name) == name \in DOMAIN blockDefs
OutputOf(name) == IF HasDef(name) THEN blockDefs[name].output ELSE ""

-----------------------------------------------------------------------------
(* The validator *)

isValidProgramVariableName(varName, localInputVariables) ==
  /\ IsStr(varName)
  /\ varName.v \notin BlankStrings
  /\ \/ varName.v \in Range(variables)
     \/ varName.v \in Range(localInputVariables)
     \/ varName.v \in DynamicVarNames

RECURSIVE isValidValue(_, _, _), isValidBlock(_, _)

\* TRUE iff isValidValue returns true (it returns false, or the nested
\* isValidBlock raises, otherwise).
isValidValue(value, expectedType, inputVariables) ==
  IF IsNullish(value) THEN FALSE
  ELSE
    \/ /\ expectedType = "number"
       /\ \/ IsNum(value)
          \/ /\ IsStr(value)
             /\ value.v \in Range(variables) \cup Range(inputVariables)
          \/ /\ IsObj(value)
             /\ value.blockName # ""
             /\ isValidBlock(value, inputVariables)
             /\ \/ OutputOf(value.blockName) = "number"
                \/ /\ value.blockName = "get"
                   /\ IsArr(value.inputs)
                   /\ Len(value.inputs.a) >= 1
                   /\ isValidProgramVariableName(value.inputs.a[1], inputVariables)
                   /\ ~startsWithB(value.inputs.a[1].v)
    \/ /\ expectedType = "boolean"
       /\ \/ IsBool(value)
          \/ isValidProgramVariableName(value, inputVariables)
          \/ /\ IsObj(value)
             /\ value.blockName # ""
             /\ isValidBlock(value, inputVariables)
             /\ \/ OutputOf(value.blockName) = "boolean"
                \/ /\ value.blockName = "get"
                   /\ IsArr(value.inputs)
                   /\ Len(value.inputs.a) >= 1
                   /\ isValidProgramVariableName(value.inputs.a[1], inputVariables)
                   /\ startsWithB(value.inputs.a[1].v)
    \/ /\ expectedType = "variable"
       /\ isValidProgramVariableName(value, inputVariables)
    \/ /\ expectedType = OpsType
       /\ IsStr(value)
       /\ value.v \in Range(operators)

\* TRUE iff isValidBlock returns true.  In program.ts every failing check
\* raises an Error instead of returning false.
isValidBlock(block, inputVariables) ==
  IF ~IsObj(block) THEN FALSE
  ELSE IF block.blockName = "" THEN FALSE
  ELSE IF block.blockName = "set" THEN
    /\ isValidProgramVariableName(block.var, inputVariables)
    /\ isValidValue(block.value,
                    IF startsWithB(block.var.v) THEN "boolean" ELSE "number",
                    inputVariables)
  ELSE IF block.blockName = "return" THEN
    /\ IsArr(block.inputs)
    /\ Len(block.inputs.a) = 1
    /\ isValidValue(block.inputs.a[1], "number", inputVariables)
  ELSE IF block.blockName \in {"if", "ifElse"} THEN
    /\ isValidValue(block.condition, "boolean", inputVariables)
    /\ IsArr(block.actions)
    /\ \A i \in DOMAIN block.actions.a :
         isValidBlock(block.actions.a[i], inputVariables)
    /\ block.blockName = "ifElse" =>
         /\ IsArr(block.elseActions)
         /\ \A i \in DOMAIN block.elseActions.a :
              isValidBlock(block.elseActions.a[i], inputVariables)
  ELSE IF ~HasDef(block.blockName) THEN FALSE
  ELSE IF blockDefs[block.blockName].hasInputs THEN
    /\ IsArr(block.inputs)
    /\ Len(block.inputs.a) = Len(blockDefs[block.blockName].inputs)
    /\ \A i \in DOMAIN block.inputs.a :
         isValidValue(block.inputs.a[i], blockDefs[block.blockName].inputs[i],
                      inputVariables)
  ELSE ~(IsArr(block.inputs) /\ Len(block.inputs.a) > 0)

\* The outcome of a call of isValidBlock: "true", or "throw" (program.ts
\* has no path that returns false).
isValidBlockOutcome(block, inputVariables) ==
  IF isValidBlock(block, inputVariables) THEN "true" ELSE "throw"

-----------------------------------------------------------------------------
(* Inputs of the bounded checks *)

\* the input variables of the test problem the programs are built against
InputVars == <<"x", "y">>

Idle == [op |-> "idle"]

\* Progeny.run is not running
NotRunning ==
  /\ pc = "idle"
  /\ config = [populationSize |-> 0, maxGenerations |-> 0, trials |-> 0]
  /\ population = <<>>
  /\ newPopulation = <<>>
  /\ trial = 0
  /\ gen = 0
  /\ bestProgram = Null
  /\ bestFitness = Null
  /\ returned = Undef
  /\ selectCount = 0
  /\ trialResults = <<>>
  /\ breeding = Null
  /\ lastSelect = Null

\* Values a slot of a catalog block is filled with in the validator check:
\* one or two of every JavaScript type the validator distinguishes.
NumberOutputBlock == Block("add", <<Num(1), Str("x")>>)
BooleanOutputBlock == Block("not", <<Bool(TRUE)>>)
GetNumeric == Block("get", <<Str("x")>>)
GetBoolean == Block("get", <<Str("b0")>>)

SlotPool ==
  {Num(1), Bool(TRUE), Str("x"), Str("out"), Str("b0"), Str(">"), Null,
   NumberOutputBlock, BooleanOutputBlock, GetNumeric, GetBoolean}

\* the catalog kinds with a signature of value slots
ReporterKinds ==
  {"add", "subtract", "multiply", "divide", "power", "modulo", "absolute",
   "negate", "compare", "and", "or", "not", "get", "pi", "e"}

ArityDeltas == {-1, 0, 1}

SeqsOfLen(S, n) == [1..n -> S]

CatalogArity(k) == Len(blockDefs[k].inputs)

-----------------------------------------------------------------------------
(* Validator calls *)

CallIsValidBlock ==
  /\ call = Idle
  /\ \E k \in ReporterKinds :
       \E b \in {BlockNoInputs(k)} \cup
                UNION {{Block(k, ins) :
                          ins \in SeqsOfLen(SlotPool, CatalogArity(k) + d)} :
                       d \in {e \in ArityDeltas : CatalogArity(k) + e >= 0}} :
         /\ call' = [op |-> "isValidBlock", block |-> b,
                     inputVariables |-> InputVars]
         /\ ret' = isValidBlockOutcome(b, InputVars)
         /\ UNCHANGED runVars

\* what a call of isValidValue does: it returns true or false, or the
\* isValidBlock it calls on a nested block raises
isValidValueOutcome(value, expectedType, inputVariables) ==
  IF /\ IsObj(value)
     /\ value.blockName # ""
     /\ expectedType \in {"number", "boolean"}
     /\ ~isValidBlock(value, inputVariables)
  THEN "throw"
  ELSE IF isValidValue(value, expectedType, inputVariables) THEN "true"
  ELSE "false"

\* the slot values of SlotPool, further names (a variable of the list, an
\* input variable, a b-prefixed and a v-prefixed name that are no variable
\* names), a Get of out and a block of an unknown kind
ValuePool ==
  SlotPool \cup {Bool(FALSE), Str("v0"), Str("y"), Str("b1"), Str("bogus"),
                 Str("velocity"), Undef, Block("get", <<Str("out")>>),
                 Block("bogus", <<Num(1)>>)}

ExpectedTypes == {"number", "boolean", "variable", OpsType}

CallIsValidValue ==
  /\ call = Idle
  /\ \E value \in ValuePool, expectedType \in ExpectedTypes :
       /\ call' = [op |-> "isValidValue", value |-> value,
                   expectedType |-> expectedType, inputVariables |-> InputVars]
       /\ ret' = isValidValueOutcome(value, expectedType, InputVars)
       /\ UNCHANGED runVars

InitValidator == call = Idle /\ ret = Undef /\ NotRunning

NextValidator == CallIsValidBlock \/ CallIsValidValue

SpecValidator == InitValidator /\ [][NextValidator]_vars

-----------------------------------------------------------------------------
(* C10: validator soundness *)

\* the signature the catalog is documented to give each kind: slots typed
\* number, boolean, variable, or operator token
DocumentedSignature(k) ==
  CASE k \in {"add", "subtract", "multiply", "divide", "power", "modulo"} ->
         <<"number", "number">>
    [] k \in {"absolute", "negate"} -> <<"number">>
    [] k = "compare" -> <<"number", "number", "operator">>
    [] k \in {"and", "or"} -> <<"boolean", "boolean">>
    [] k = "not" -> <<"boolean">>
    [] k = "get" -> <<"variable">>
    [] k \in {"pi", "e"} -> <<>>

\* the values of the pool that have the type of a slot
ValuesOfType(ty) ==
  CASE ty = "number" ->
         {Num(1), Str("x"), Str("out"), NumberOutputBlock, GetNumeric}
    [] ty = "boolean" -> {Bool(TRUE), Str("b0"), BooleanOutputBlock, GetBoolean}
    [] ty = "variable" -> {Str("x"), Str("out"), Str("b0")}
    [] ty = "operator" -> {Str(">")}

WellTypedInstance(b) ==
  /\ b.blockName \in ReporterKinds
  /\ IF IsArr(b.inputs)
     THEN /\ Len(b.inputs.a) = Len(DocumentedSignature(b.blockName))
          /\ \A i \in DOMAIN b.inputs.a :
               b.inputs.a[i] \in ValuesOfType(DocumentedSignature(b.blockName)[i])
     ELSE Len(DocumentedSignature(b.blockName)) = 0

WrongArityInstance(b) ==
  /\ b.blockName \in ReporterKinds
  /\ IF IsArr(b.inputs)
     THEN Len(b.inputs.a) # Len(DocumentedSignature(b.blockName))
     ELSE Len(DocumentedSignature(b.blockName)) # 0

\* right arity, exactly one slot holds a value of a mismatched type
OneSlotMismatched(b) ==
  /\ b.blockName \in ReporterKinds
  /\ IsArr(b.inputs)
  /\ Len(b.inputs.a) = Len(DocumentedSignature(b.blockName))
  /\ Cardinality({i \in DOMAIN b.inputs.a :
        b.inputs.a[i] \notin ValuesOfType(DocumentedSignature(b.blockName)[i])}) = 1

\* C10: for every catalog kind, an instance with the catalog arity and a
\* correctly typed value in every slot validates true, and an instance with
\* another arity, or with one slot holding a value of a mismatched type, does
\* not validate.
C10_ValidatorSound ==
  call.op = "isValidBlock" =>
    /\ WellTypedInstance(call.block) => ret = "true"
    /\ WrongArityInstance(call.block) => ret # "true"
    /\ OneSlotMismatched(call.block) => ret # "true"

\* the boolean Values of the documented rule: a boolean literal, a
\* b-prefixed variable name, a valid block with boolean output, or a Get of
\* a b-prefixed name
DocumentedBoolean(value, inputVariables) ==
  \/ IsBool(value)
  \/ /\ isValidProgramVariableName(value, inputVariables)
     /\ startsWithB(value.v)
  \/ /\ IsObj(value)
     /\ isValidBlockOutcome(value, inputVariables) = "true"
     /\ \/ OutputOf(value.blockName) = "boolean"
        \/ /\ value.blockName = "get"
           /\ startsWithB(value.inputs.a[1].v)

\* C22: a Value is valid for type boolean if and only if it is a boolean
\* literal, a b-prefixed variable name, a valid block whose catalog output is
\* boolean, or a Get of a b-prefixed name; a string naming a numeric
\* variable (out, v0, an input variable) is not a valid boolean Value.
C22_BooleanSlotRule ==
  (call.op = "isValidValue" /\ call.expectedType = "boolean") =>
    (ret = "true" <=> DocumentedBoolean(call.value, call.inputVariables))

-----------------------------------------------------------------------------
(* The random generators.  A generator is the set of the values it can      *)
(* return.  Math.random() draws the block kind and the constant from the    *)
(* lists below; the specifications draw them from DrawnKinds and DrawnConstants. *)

\* the kinds generateRandomBlock(isAction = false) chooses from
numberBlockTypes ==
  {k \in DOMAIN blockDefs : blockDefs[k].output = "number" /\ k # "get"}

DrawnKinds == {"modulo"}
DrawnConstants == {0}

\* the sequences whose i-th element is drawn from sets[i]
Product(sets) ==
  {f \in [DOMAIN sets -> UNION Range(sets)] : \A i \in DOMAIN sets : f[i] \in sets[i]}

\* a generated value, or the Error the generation raised
Generated(v) == [threw |-> FALSE, value |-> v]
GenerationThrew == [threw |-> TRUE, value |-> Undef]

\* a generateInput that ignores maxDepth: it returns a nested Block where the
\* recursion should have ended
Faulty_generateInputOf(kinds, drawn, type, depth, maxDepth, inputVariables) ==
  IF type = "number"
  THEN {Generated(Block("add", <<Num(0), Num(0)>>))}
  ELSE IF type = "boolean" THEN {Generated(Bool(FALSE))}
  ELSE {Generated(Num(0))}

RECURSIVE generateInputOf(_, _, _, _, _, _),
          generateRandomBlockOf(_, _, _, _, _, _, _)

\* generateInput(type, depth, maxDepth, inputVariables) when the kinds of
\* number blocks drawn are among kinds and the constants drawn among drawn:
\* what it returns, or that the isValidBlock it calls raised
generateInputOf(kinds, drawn, type, depth, maxDepth, inputVariables) ==
  LET fromInputs == {Generated(Str(inputVariables[i])) : i \in DOMAIN inputVariables}
      fromConstants == {Generated(Num(c)) : c \in Range(constants) \cap drawn}
      fromBooleans == {Generated(Bool(b)) : b \in Range(booleanConstants)}
      fromVariables == {Generated(Str(v)) : v \in Range(variables)}
      fromOperators == {Generated(Str(o)) : o \in Range(operators)}
      nested == generateRandomBlockOf(kinds, drawn, depth + 1, maxDepth, FALSE,
                                      Null, inputVariables)
  IN IF depth >= maxDepth
     THEN CASE type = "number" ->
                 IF Len(inputVariables) > 0 THEN fromInputs ELSE fromConstants
            [] type = "boolean" -> fromBooleans
            [] type = "variable" -> fromVariables
            [] type = OpsType -> fromOperators
            [] OTHER -> {Generated(Num(0))}
     ELSE CASE type = "number" ->
                 fromInputs \cup fromConstants \cup
                 {IF g.threw THEN GenerationThrew
                  ELSE IF ~isValidBlock(g.value, inputVariables) THEN GenerationThrew
                  ELSE g : g \in nested}
            [] type = "boolean" ->
                 fromBooleans \cup
                 UNION {IF g.threw THEN {GenerationThrew}
                        ELSE IF ~isValidBlock(g.value, inputVariables)
                        THEN {GenerationThrew}
                        ELSE IF OutputOf(g.value.blockName) # "boolean"
                        THEN fromBooleans
                        ELSE {g} : g \in nested}
            [] type = "variable" -> fromVariables
            [] type = OpsType -> fromOperators
            [] OTHER -> {Generated(Num(0))}

\* generateRandomBlock(depth, maxDepth, isAction, targetVar, inputVariables):
\* the block it returns, or that it raised.  Neither filter lets the kind set
\* through, so the branch for set blocks and targetVar are never used.
generateRandomBlockOf(kinds, drawn, depth, maxDepth, isAction, targetVar, inputVariables) ==
  LET blockTypes ==
        IF isAction
        THEN {t \in DOMAIN blockDefs :
                blockDefs[t].output = "" /\ t \notin {"return", "set"}}
        ELSE {t \in DOMAIN blockDefs :
                blockDefs[t].output = "number" /\ t \notin {"get", "return"}}
             \cap kinds
      checked(input, inputType) ==
        IF isValidValue(input, inputType, inputVariables) THEN input
        ELSE IF inputType = "number" THEN Num(constants[1])
        ELSE IF inputType = "boolean" THEN Bool(FALSE)
        ELSE Str(variables[1])
      slot(k, i) ==
        {IF g.threw THEN g ELSE Generated(checked(g.value, blockDefs[k].inputs[i])) :
           g \in generateInputOf(kinds, drawn, blockDefs[k].inputs[i], depth + 1,
                                 maxDepth, inputVariables)}
      built(k) ==
        IF blockDefs[k].hasInputs
        THEN {IF \E i \in DOMAIN ins : ins[i].threw THEN GenerationThrew
              ELSE Generated(Block(k, [i \in DOMAIN ins |-> ins[i].value])) :
                ins \in Product([i \in DOMAIN blockDefs[k].inputs |-> slot(k, i)])}
        ELSE {Generated(BlockNoInputs(k))}
  IN UNION {{IF b.threw THEN b
             ELSE IF ~isValidBlock(b.value, inputVariables) THEN GenerationThrew
             ELSE b : b \in built(k)} :
            k \in blockTypes}

\* the values generateInput returns when the kinds and constants drawn are
\* DrawnKinds and DrawnConstants
generateInput(type, depth, maxDepth, inputVariables) ==
  {g.value : g \in {o \in generateInputOf(DrawnKinds, DrawnConstants, type, depth,
                                         maxDepth, inputVariables) : ~o.threw}}

\* generateRandomBlock(depth, maxDepth, false, null, inputVariables), likewise
generateRandomBlock(depth, maxDepth, inputVariables) ==
  {g.value : g \in {o \in generateRandomBlockOf(DrawnKinds, DrawnConstants, depth,
                                               maxDepth, FALSE, Null,
                                               inputVariables) : ~o.threw}}

generateInitialValue(inputVariables, depth, maxDepth) ==
  LET fromInputs == {Str(inputVariables[i]) : i \in DOMAIN inputVariables}
      outerAdds ==
        {Block("add", <<Block("add", <<a, b>>), c>>) :
           a \in fromInputs, b \in fromInputs, c \in fromInputs}
  IN (IF Len(inputVariables) >= 2 THEN outerAdds ELSE {}) \cup
     generateInput("number", depth, maxDepth, inputVariables)

-----------------------------------------------------------------------------
(* The Program constructor *)

\* the result of an operation that either raises or yields a block list
Threw == [threw |-> TRUE, blocks |-> <<>>]
Done(blocks) == [threw |-> FALSE, blocks |-> blocks]

\* Array.prototype.filter with isValidBlock as the predicate: raises at the
\* first block isValidBlock raises on, keeps the blocks it returns true for
filterValid(blocks, inputVariables) ==
  IF \E i \in DOMAIN blocks :
       isValidBlockOutcome(blocks[i], inputVariables) = "throw"
  THEN Threw
  ELSE Done(SelectSeq(blocks,
              LAMBDA b : isValidBlockOutcome(b, inputVariables) = "true"))

\* [ {set out := inputVariables[0] or constants[0]}, {return out} ]
defaultBlocks(inputVariables) ==
  <<SetBlock("out", IF Len(inputVariables) > 0 THEN Str(inputVariables[1])
                    ELSE Num(constants[1])),
    ReturnOut>>

\* [ {set out := constants[0]}, {return out} ]
fallbackBlocks == <<SetBlock("out", Num(constants[1])), ReturnOut>>

hasReturn(blocks) == \E i \in DOMAIN blocks : blocks[i].blockName = "return"

\* new ProgenyProgram(initialBlocks, inputVariables)
constructor(initialBlocks, inputVariables) ==
  LET filtered == IF Len(initialBlocks) > 0
                  THEN filterValid(initialBlocks, inputVariables)
                  ELSE Done(<<>>)
  IN IF filtered.threw THEN Threw
     ELSE LET processedBlocks == IF Len(filtered.blocks) = 0
                                 THEN defaultBlocks(inputVariables)
                                 ELSE filtered.blocks
              withReturn == IF hasReturn(processedBlocks) THEN processedBlocks
                            ELSE Append(processedBlocks, ReturnOut)
          IN IF \E i \in DOMAIN withReturn :
                  isValidBlockOutcome(withReturn[i], inputVariables) = "throw"
             THEN Threw
             ELSE IF \A i \in DOMAIN withReturn :
                       isValidBlockOutcome(withReturn[i], inputVariables) = "true"
                  THEN Done(withReturn)
                  ELSE Done(fallbackBlocks)

\* ProgenyProgram.create(initialBlocks, inputVariables): the Programs
\* (constructor results) it can return
create(initialBlocks, inputVariables) ==
  IF Len(initialBlocks) > 0
  THEN {constructor(initialBlocks, inputVariables)}
  ELSE {constructor(<<SetBlock("out", v), ReturnOut>>, inputVariables) :
          v \in generateInitialValue(inputVariables, 0, 2)}

\* Blocks the constructor is called with: valid statements, a Return, and one
\* block of each structurally invalid sort (unknown kind, wrong arity, wrong
\* slot type, non-object).
UnknownKindBlock == Block("bogus", <<Num(1)>>)
WrongArityBlock == Block("add", <<Num(1)>>)
WrongSlotTypeBlock == SetBlock("out", Bool(TRUE))
NonObject == Num(1)

InvalidBlocks == {UnknownKindBlock, WrongArityBlock, WrongSlotTypeBlock, NonObject}

CtorBlockPool ==
  {SetBlock("out", Str("x")), SetBlock("v0", NumberOutputBlock), ReturnOut,
   ReturnBlock(Str("v0"))} \cup InvalidBlocks

MaxCtorLen == 3

SeqsUpTo(S, n) == UNION {SeqsOfLen(S, k) : k \in 0..n}

\* the inputVariables the constructor is called with: none, or InputVars
CtorInputVariables == {<<>>, InputVars}

CallConstructor ==
  /\ call = Idle
  /\ \E blocks \in SeqsUpTo(CtorBlockPool, MaxCtorLen),
        inputVariables \in CtorInputVariables :
       /\ call' = [op |-> "constructor", blocks |-> blocks,
                   inputVariables |-> inputVariables]
       /\ ret' = constructor(blocks, inputVariables)
       /\ UNCHANGED runVars

InitCtor == call = Idle /\ ret = Undef /\ NotRunning

NextCtor == CallConstructor

SpecCtor == InitCtor /\ [][NextCtor]_vars

allValid(blocks, inputVariables) ==
  \A i \in DOMAIN blocks : isValidBlock(blocks[i], inputVariables)

\* C3: for any initial block list, including lists with a Return that is not
\* last or with invalid blocks, the constructed Program's last block is a
\* Return and every block of it passes isValidBlock.
C3_ConstructorNormalizes ==
  call.op = "constructor" =>
    /\ ~ret.threw
    /\ Len(ret.blocks) > 0
    /\ ret.blocks[Len(ret.blocks)].blockName = "return"
    /\ allValid(ret.blocks, call.inputVariables)

\* C8: an operation that meets a structurally invalid block does not raise;
\* it completes, the invalid block filtered out or replaced by a default.
C8_NeverFatal ==
  (call.op = "constructor" /\ \E i \in DOMAIN call.blocks :
                                 call.blocks[i] \in InvalidBlocks)
    => ~ret.threw

\* C13: constructing a Program from an empty block list, or from a list
\* whose blocks are all invalid, does not raise and yields the two blocks
\* [set out := v, return out], v being the first input variable if there is
\* one and the default constant otherwise.
C13_EmptyNormalizes ==
  (call.op = "constructor" /\ \A i \in DOMAIN call.blocks :
                                 ~isValidBlock(call.blocks[i], call.inputVariables))
    => /\ ~ret.threw
       /\ ret.blocks =
            <<SetBlock("out", IF Len(call.inputVariables) > 0
                              THEN Str(call.inputVariables[1])
                              ELSE Num(constants[1])),
              ReturnOut>>

-----------------------------------------------------------------------------
(* Crossover *)

MAX_BLOCKS == 50

\* JSON.parse(JSON.stringify(v)): a property whose value is undefined is
\* dropped, an undefined array element becomes null, an object is rebuilt.
\* (The number literals of the model are finite, which JSON preserves.)
RECURSIVE jsonCopy(_)
jsonCopy(v) ==
  IF IsArr(v)
  THEN Arr([i \in DOMAIN v.a |->
              IF v.a[i] = Undef THEN Null ELSE jsonCopy(v.a[i])])
  ELSE IF IsObj(v)
  THEN Obj(v.blockName, jsonCopy(v.inputs), jsonCopy(v.var), jsonCopy(v.value),
           jsonCopy(v.condition), jsonCopy(v.actions), jsonCopy(v.elseActions))
  ELSE v

jsonCopyAll(blocks) == [i \in DOMAIN blocks |-> jsonCopy(blocks[i])]

\* crossoverAt with the second segment cut one statement late
Faulty_crossoverAt(p1_blocks, p2_blocks, cp1, cp2, inputVariables) ==
  LET segment1 == jsonCopyAll(SubSeq(p1_blocks, 1, cp1))
      segment2 == jsonCopyAll(SubSeq(p2_blocks, cp2 + 2, Len(p2_blocks)))
      raw_child_blocks == segment1 \o segment2
      non_return_blocks ==
        SelectSeq(raw_child_blocks, LAMBDA b : b.blockName # "return")
      truncated == IF Len(non_return_blocks) > MAX_BLOCKS
                   THEN SubSeq(non_return_blocks, 1, MAX_BLOCKS)
                   ELSE non_return_blocks
      final_child_blocks == truncated \o <<ReturnOut>>
  IN constructor(final_child_blocks, inputVariables)

\* the child crossover builds for the cut points cp1, cp2
crossoverAt(p1_blocks, p2_blocks, cp1, cp2, inputVariables) ==
  LET segment1 == jsonCopyAll(SubSeq(p1_blocks, 1, cp1))
      segment2 == jsonCopyAll(SubSeq(p2_blocks, cp2 + 1, Len(p2_blocks)))
      raw_child_blocks == segment1 \o segment2
      non_return_blocks ==
        SelectSeq(raw_child_blocks, LAMBDA b : b.blockName # "return")
      truncated == IF Len(non_return_blocks) > MAX_BLOCKS
                   THEN SubSeq(non_return_blocks, 1, MAX_BLOCKS)
                   ELSE non_return_blocks
      final_child_blocks == truncated \o <<ReturnOut>>
  IN constructor(final_child_blocks, inputVariables)

\* crossover(program1, program2): the children it can return
crossover(p1_blocks, p2_blocks, inputVariables) ==
  IF Len(p1_blocks) = 0 /\ Len(p2_blocks) = 0
  THEN create(<<>>, inputVariables)
  ELSE IF Len(p1_blocks) = 0
  THEN {constructor(jsonCopyAll(p2_blocks), inputVariables)}
  ELSE IF Len(p2_blocks) = 0
  THEN {constructor(jsonCopyAll(p1_blocks), inputVariables)}
  ELSE {crossoverAt(p1_blocks, p2_blocks, cp1, cp2, inputVariables) :
          cp1 \in 0..Len(p1_blocks), cp2 \in 0..Len(p2_blocks)}

\* Parents: valid Programs over InputVars, among them one whose Return is not
\* last, one with a Return nested in an if, and one of MAX_BLOCKS statements
\* followed by its Return.
LongProgram == [i \in 1..MAX_BLOCKS |-> SetBlock("out", Str("x"))] \o <<ReturnOut>>

ParentPool ==
  {<<SetBlock("out", Str("x")), ReturnOut>>,
   <<SetBlock("v0", NumberOutputBlock), SetBlock("out", Str("v0")), ReturnOut>>,
   <<ReturnOut, SetBlock("out", Str("y"))>>,
   <<IfBlock(Bool(TRUE), <<ReturnBlock(Str("x"))>>), ReturnOut>>,
   LongProgram}

\* A Program whose public blocks field was emptied by its owner
EmptyProgram == <<>>

\* crossover(program1, program2): the cut points are drawn only when both
\* parents have blocks
CallCrossover ==
  /\ call = Idle
  /\ \E p1 \in ParentPool \cup {EmptyProgram},
        p2 \in ParentPool \cup {EmptyProgram} :
       \E cp1 \in 0..Len(p1), cp2 \in 0..Len(p2) :
         /\ call' = [op |-> "crossover", program1 |-> p1, program2 |-> p2,
                     cp1 |-> cp1, cp2 |-> cp2, inputVariables |-> InputVars]
         /\ ret' \in IF Len(p1) * Len(p2) = 0
                      THEN crossover(p1, p2, InputVars)
                      ELSE {crossoverAt(p1, p2, cp1, cp2, InputVars)}
         /\ UNCHANGED runVars

InitCross == call = Idle /\ ret = Undef /\ NotRunning

NextCross == CallCrossover

SpecCross == InitCross /\ [][NextCross]_vars

topLevelReturns(blocks) == {i \in DOMAIN blocks : blocks[i].blockName = "return"}

\* C1: for two valid Programs and any cut points, crossover returns a Program
\* whose blocks all pass isValidBlock, with exactly one top-level Return, which
\* is its last block, and with at most MAX_BLOCKS blocks.
C1_CrossoverClosure ==
  (call.op = "crossover" /\ Len(call.program1) > 0 /\ Len(call.program2) > 0) =>
    /\ ~ret.threw
    /\ allValid(ret.blocks, call.inputVariables)
    /\ topLevelReturns(ret.blocks) = {Len(ret.blocks)}
    /\ Len(ret.blocks) <= MAX_BLOCKS

\* the splice the cut points describe: p1[0:cp1] ++ p2[cp2:] without its
\* top-level Returns, cut to its first MAX_BLOCKS elements
splicedBody(p1, p2, cp1, cp2) ==
  LET raw == SubSeq(p1, 1, cp1) \o SubSeq(p2, cp2 + 1, Len(p2))
      kept == SelectSeq(raw, LAMBDA b : b.blockName # "return")
  IN SubSeq(kept, 1, IF Len(kept) > MAX_BLOCKS THEN MAX_BLOCKS ELSE Len(kept))

\* C18: for non-empty parents and cut points cp1, cp2 the child's blocks
\* before its final Return are p1[0:cp1] ++ p2[cp2:] with every top-level
\* Return removed, in order, cut to the first MAX_BLOCKS; with exactly one
\* parent empty the child is a copy of the other parent; with both empty the
\* child is a freshly generated Program.
C18_CrossoverSplice ==
  call.op = "crossover" =>
    LET p1 == call.program1
        p2 == call.program2
    IN /\ (Len(p1) > 0 /\ Len(p2) > 0) =>
            /\ ~ret.threw
            /\ ret.blocks =
                 splicedBody(p1, p2, call.cp1, call.cp2) \o <<ReturnOut>>
       /\ (Len(p1) = 0 /\ Len(p2) > 0) => ret = Done(p2)
       /\ (Len(p1) > 0 /\ Len(p2) = 0) => ret = Done(p1)
       /\ (Len(p1) = 0 /\ Len(p2) = 0) =>
            \E v \in generateInitialValue(call.inputVariables, 0, 2) :
              ret = Done(<<SetBlock("out", v), ReturnOut>>)

\* a splice that drops a top-level Return and is cut at MAX_BLOCKS
C18_Witness ==
  /\ call.op = "crossover"
  /\ call.cp1 > 0
  /\ call.cp2 < Len(call.program2)
  /\ \E i \in 1..call.cp1 : call.program1[i].blockName = "return"
  /\ Len(ret.blocks) = MAX_BLOCKS + 1
  /\ ret.blocks[MAX_BLOCKS].var = Str("out")

-----------------------------------------------------------------------------
(* JavaScript numbers at run time: an integer Num(n), NaN, +Infinity or    *)
(* -Infinity; a fitness is 0, NaN or the fraction Rat(n, d) = n/d, d > 0.   *)

NaN == [t |-> "nan"]
Infinity == [t |-> "inf", sign |-> 1]
NegInfinity == [t |-> "inf", sign |-> -1]
Rat(n, d) == [t |-> "rat", n |-> n, d |-> d]

\* typeof v === 'number'
typeofNumber(v) == v.t \in {"num", "nan", "inf", "rat"}

\* a - b
jsSub(a, b) ==
  IF a = NaN \/ b = NaN THEN NaN
  ELSE IF a.t = "inf" THEN (IF b = a THEN NaN ELSE a)
  ELSE IF b.t = "inf" THEN [t |-> "inf", sign |-> -b.sign]
  ELSE Num(a.v - b.v)

\* a + b
jsAdd(a, b) ==
  IF a = NaN \/ b = NaN THEN NaN
  ELSE IF a.t = "inf" THEN (IF b.t = "inf" /\ b # a THEN NaN ELSE a)
  ELSE IF b.t = "inf" THEN b
  ELSE Num(a.v + b.v)

\* a wrong Math.abs, which keeps the sign of its argument
Faulty_jsAbs(a) == a

\* Math.abs(a)
jsAbs(a) ==
  IF a = NaN THEN NaN
  ELSE IF a.t = "inf" THEN Infinity
  ELSE Num(IF a.v < 0 THEN -a.v ELSE a.v)

\* 1 / (1 + errorSum), errorSum >= 0
fitnessOf(errorSum) ==
  IF errorSum = NaN THEN NaN
  ELSE IF errorSum.t = "inf" THEN Num(0)
  ELSE Rat(1, 1 + errorSum.v)

\* numerator and denominator of a finite fitness
numer(f) == IF f.t = "rat" THEN f.n ELSE f.v
denom(f) == IF f.t = "rat" THEN f.d ELSE 1

\* a > b, a >= b, a === b on fitness values and -Infinity (false when either
\* is NaN)
jsGreater(a, b) ==
  /\ a # NaN /\ b # NaN
  /\ IF a.t = "inf" \/ b.t = "inf"
     THEN a # b /\ (a = Infinity \/ b = NegInfinity)
     ELSE numer(a) * denom(b) > numer(b) * denom(a)
jsEqual(a, b) ==
  /\ a # NaN /\ b # NaN
  /\ IF a.t = "inf" \/ b.t = "inf" THEN a = b
     ELSE numer(a) * denom(b) = numer(b) * denom(a)
jsGreaterEq(a, b) == jsGreater(a, b) \/ jsEqual(a, b)

-----------------------------------------------------------------------------
(* Progeny.evaluate *)

\* evaluate(program, testCase), where results[i] is what program.run returns
\* for the i-th generated case and expected[i] is the case's expected value
evaluate(results, expected) ==
  LET loop[i \in 0..Len(results)] ==
        IF i = 0 THEN [returned |-> FALSE, errorSum |-> Num(0)]
        ELSE IF loop[i - 1].returned THEN loop[i - 1]
        ELSE IF ~typeofNumber(results[i])
        THEN [returned |-> TRUE, errorSum |-> loop[i - 1].errorSum]
        ELSE [returned |-> FALSE,
              errorSum |-> jsAdd(loop[i - 1].errorSum,
                                 jsAbs(jsSub(results[i], Num(expected[i]))))]
      end == loop[Len(results)]
  IN IF end.returned THEN Num(0) ELSE fitnessOf(end.errorSum)

\* What program.run can hand to evaluate: finite numbers, NaN, the
\* infinities and, for the short-circuit, values that are not numbers.
ResultPool == {Num(-1), Num(0), Num(2), NaN, Infinity, NegInfinity, Undef, Str("x")}
ExpectedPool == {0, 1}
MaxCases == 2

CallEvaluate ==
  /\ call = Idle
  /\ \E n \in 1..MaxCases :
       \E results \in SeqsOfLen(ResultPool, n), expected \in SeqsOfLen(ExpectedPool, n) :
         /\ call' = [op |-> "evaluate", results |-> results, expected |-> expected]
         /\ ret' = evaluate(results, expected)
         /\ UNCHANGED runVars

InitEval == call = Idle /\ ret = Undef /\ NotRunning

NextEval == CallEvaluate

SpecEval == InitEval /\ [][NextEval]_vars

-----------------------------------------------------------------------------
(* C7: the fitness formula *)

AbsDiff(r, e) == IF r.v - e < 0 THEN e - r.v ELSE r.v - e

RECURSIVE SumAbsDiff(_, _)
\* the total error, sum over the cases of |result - expected|, of finite results
SumAbsDiff(results, expected) ==
  IF Len(results) = 0 THEN 0
  ELSE AbsDiff(Head(results), Head(expected)) +
       SumAbsDiff(Tail(results), Tail(expected))

AnyNonNumeric(results) == \E i \in DOMAIN results : ~typeofNumber(results[i])
AllNumeric(results) == ~AnyNonNumeric(results)
AllFinite(results) == \A i \in DOMAIN results : results[i].t = "num"

InUnitInterval(f) == jsGreater(f, Num(0)) /\ jsGreaterEq(Num(1), f)

-----------------------------------------------------------------------------
(* Progeny.select *)

IndexPermutations(n) == {p \in [1..n -> 1..n] : \A i, j \in 1..n : p[i] = p[j] => i = j}

\* a wrong comparator, which orders by ascending fitness
Faulty_compareFitness(a, b) ==
  IF a.fitness = NaN \/ b.fitness = NaN THEN NaN
  ELSE IF jsGreater(a.fitness, b.fitness) THEN Num(1)
  ELSE IF jsEqual(a.fitness, b.fitness) THEN Num(0)
  ELSE Num(-1)

\* (a, b) => b.fitness - a.fitness, as its sign or NaN
compareFitness(a, b) ==
  IF a.fitness = NaN \/ b.fitness = NaN THEN NaN
  ELSE IF jsGreater(b.fitness, a.fitness) THEN Num(1)
  ELSE IF jsEqual(b.fitness, a.fitness) THEN Num(0)
  ELSE Num(-1)

\* Array.prototype.sort with compareFitness: the stable sort when the
\* comparator is consistent; when a comparison yields NaN the comparator is
\* not consistent and the order is implementation-defined (any permutation).
sortOutcomes(evaluated) ==
  LET n == Len(evaluated)
      consistent == \A i, j \in 1..n :
                      i # j => compareFitness(evaluated[i], evaluated[j]) # NaN
      inOrder(p) == \A i, j \in 1..n :
                      i < j =>
                        LET c == compareFitness(evaluated[p[i]], evaluated[p[j]])
                        IN c = Num(-1) \/ (c = Num(0) /\ p[i] < p[j])
  IN {[i \in 1..n |-> evaluated[p[i]]] :
        p \in {q \in IndexPermutations(n) : consistent => inOrder(q)}}

\* evaluatedPopulation.slice(0, Math.floor(populationSize / 2)) after the sort
selectedSurvivors(evaluated, populationSize) ==
  LET selectionSize == populationSize \div 2
  IN {SubSeq(sorted, 1, IF selectionSize < Len(sorted) THEN selectionSize
                        ELSE Len(sorted)) :
        sorted \in sortOutcomes(evaluated)}

\* select(testCase): the populations it can leave, where evaluated[i] pairs
\* population[i] with its average fitness over the evaluation batches
select(evaluated, populationSize) ==
  IF Len(evaluated) = 0 THEN {<<>>}
  ELSE {[i \in DOMAIN s |-> s[i].program] :
          s \in selectedSurvivors(evaluated, populationSize)}

\* Fitness values of programs: 1, 1/2, 1/3, 0 and NaN
FitnessPool == {Rat(1, 1), Rat(1, 2), Rat(1, 3), Num(0), NaN}
MaxSelectPop == 4

\* distinct programs: the i-th sets out to the constant i
ProgramNo(i) == <<SetBlock("out", Num(i)), ReturnOut>>

CallSelect ==
  /\ call = Idle
  /\ \E n \in 1..MaxSelectPop :
       \E fitness \in SeqsOfLen(FitnessPool, n) :
         LET evaluated == [i \in 1..n |->
                             [program |-> ProgramNo(i), fitness |-> fitness[i]]]
         IN \E survivors \in selectedSurvivors(evaluated, n) :
              /\ [i \in DOMAIN survivors |-> survivors[i].program] \in select(evaluated, n)
              /\ call' = [op |-> "select", evaluated |-> evaluated,
                          populationSize |-> n]
              /\ ret' = [survivors |-> survivors]
              /\ UNCHANGED runVars

InitSelect == call = Idle /\ ret = Undef /\ NotRunning

NextSelect == CallSelect

SpecSelect == InitSelect /\ [][NextSelect]_vars

-----------------------------------------------------------------------------
(* C6: what select keeps *)

Discarded == Range(call.evaluated) \ Range(ret.survivors)

KeepsTopHalf ==
  /\ Len(ret.survivors) = call.populationSize \div 2
  /\ \A i \in 1..(Len(ret.survivors) - 1) :
       jsGreaterEq(ret.survivors[i].fitness, ret.survivors[i + 1].fitness)
  /\ \A d \in Discarded : \A i \in DOMAIN ret.survivors :
       ~jsGreater(d.fitness, ret.survivors[i].fitness)

NoNaNFitness ==
  \A i \in DOMAIN call.evaluated : call.evaluated[i].fitness # NaN

-----------------------------------------------------------------------------
(* The mutation rules of the catalog (the `mutations` arrays of blocks.js). *)
(* Rule i of kind k is ruleCondition(k, i, block) and ruleChange(k, i,      *)
(* block).  A condition is "true", "false" or "TypeError" (a property read  *)
(* of undefined); a change is the array it returns, or a TypeError.         *)

\* a === b.  Two blocks are two objects: the generators and the JSON copy of
\* crossover build a fresh object for every slot.
strictEq(a, b) == ~IsObj(a) /\ ~IsArr(a) /\ a = b

\* v.blockName of a non-null value (undefined, here "", when v is no object)
blockNameOf(v) == IF IsObj(v) THEN v.blockName ELSE ""

\* typeof v === 'number' && v < 0
negativeConstant(v) == IsNum(v) /\ v.v < 0

\* a / b for slot values: the quotient of two numbers, NaN otherwise
jsDivide(a, b) ==
  IF ~(IsNum(a) /\ IsNum(b)) THEN NaN
  ELSE IF b.v = 0 THEN (IF a.v = 0 THEN NaN
                        ELSE IF a.v > 0 THEN Infinity ELSE NegInfinity)
  ELSE IF a.v % (IF b.v < 0 THEN -b.v ELSE b.v) = 0 THEN Num(a.v \div b.v)
  ELSE Rat(a.v, b.v)

Changed(result) == [typeError |-> FALSE, isArray |-> TRUE, result |-> result]
ChangeTypeError == [typeError |-> TRUE, isArray |-> FALSE, result |-> <<>>]

\* v.inputs[0] as the one-element array [v.inputs[0]]
firstInputOf(v) ==
  IF IsObj(v) /\ IsArr(v.inputs)
  THEN Changed(<<IF Len(v.inputs.a) > 0 THEN v.inputs.a[1] ELSE Undef>>)
  ELSE ChangeTypeError

\* blockDef.mutations.length
ruleCount(k) ==
  CASE k = "set" -> 1
    [] k = "add" -> 5
    [] k = "subtract" -> 6
    [] k = "multiply" -> 6
    [] k = "divide" -> 3
    [] k = "power" -> 2
    [] k = "modulo" -> 2
    [] k = "absolute" -> 2
    [] k = "negate" -> 1
    [] k = "compare" -> 1
    [] k \in {"and", "or"} -> 3
    [] k = "not" -> 1
    [] k = "if" -> 2
    [] OTHER -> 0

asCondition(b) == IF b THEN "true" ELSE "false"

ruleCondition(k, i, block) ==
  IF k = "set"
  THEN IF IsNullish(block.value) THEN "TypeError"
       ELSE IF blockNameOf(block.value) # "get" THEN "false"
       ELSE IF ~IsArr(block.value.inputs) THEN "TypeError"
       ELSE asCondition(Len(block.value.inputs.a) > 0 /\
                        strictEq(block.value.inputs.a[1], block.var))
  ELSE IF ~IsArr(block.inputs) THEN "TypeError"
  ELSE
    LET in(j) == IF j <= Len(block.inputs.a) THEN block.inputs.a[j] ELSE Undef
        a == in(1)
        b == in(2)
        same == strictEq(a, b)
        has(n) == a = Num(n) \/ b = Num(n)
        bothNumbers == IsNum(a) /\ IsNum(b)
        named(name) == IF IsNullish(a) THEN "TypeError"
                       ELSE IF blockNameOf(a) = name THEN "true"
                       ELSE IF IsNullish(b) THEN "TypeError"
                       ELSE asCondition(blockNameOf(b) = name)
        firstNamed(name) == IF IsNullish(a) THEN "TypeError"
                            ELSE asCondition(blockNameOf(a) = name)
    IN CASE k = "add" /\ i = 1 -> asCondition(same)
         [] k = "add" /\ i = 2 -> asCondition(has(0))
         [] k = "add" /\ i = 3 -> asCondition(bothNumbers)
         [] k = "add" /\ i = 4 ->
              asCondition(negativeConstant(a) \/ negativeConstant(b))
         [] k = "add" /\ i = 5 -> named("negate")
         [] k = "subtract" /\ i = 1 -> asCondition(same)
         [] k = "subtract" /\ i = 2 -> asCondition(a = Num(0))
         [] k = "subtract" /\ i = 3 -> asCondition(b = Num(0))
         [] k = "subtract" /\ i = 4 -> asCondition(bothNumbers)
         [] k = "subtract" /\ i = 5 -> named("negate")
         [] k = "subtract" /\ i = 6 ->
              asCondition(negativeConstant(a) \/ negativeConstant(b))
         [] k = "multiply" /\ i = 1 -> asCondition(same)
         [] k = "multiply" /\ i = 2 -> asCondition(has(0))
         [] k = "multiply" /\ i = 3 -> asCondition(has(1))
         [] k = "multiply" /\ i = 4 -> asCondition(has(-1))
         [] k = "multiply" /\ i = 5 -> asCondition(bothNumbers)
         [] k = "multiply" /\ i = 6 -> asCondition(has(2))
         [] k = "divide" /\ i = 1 -> asCondition(b = Num(1))
         [] k = "divide" /\ i = 2 -> asCondition(same)
         [] k = "divide" /\ i = 3 -> "true"
         [] k = "power" /\ i = 1 -> "true"
         [] k = "power" /\ i = 2 -> asCondition(b = Num(2))
         [] k = "modulo" /\ i = 1 -> asCondition(b = Num(1))
         [] k = "modulo" /\ i = 2 -> asCondition(same)
         [] k = "absolute" /\ i = 1 -> firstNamed("absolute")
         [] k = "absolute" /\ i = 2 -> firstNamed("negate")
         [] k = "negate" /\ i = 1 -> firstNamed("negate")
         [] k = "compare" /\ i = 1 -> asCondition(same)
         [] k \in {"and", "or"} /\ i = 1 -> asCondition(same)
         [] k = "and" /\ i = 2 -> asCondition(a = Bool(TRUE) \/ b = Bool(TRUE))
         [] k = "and" /\ i = 3 -> asCondition(a = Bool(FALSE) \/ b = Bool(FALSE))
         [] k = "or" /\ i = 2 -> asCondition(a = Bool(FALSE) \/ b = Bool(FALSE))
         [] k = "or" /\ i = 3 -> asCondition(a = Bool(TRUE) \/ b = Bool(TRUE))
         [] k = "not" /\ i = 1 -> firstNamed("not")
         [] k = "if" /\ i = 1 -> asCondition(a = Bool(TRUE))
         [] k = "if" /\ i = 2 -> asCondition(a = Bool(FALSE))

ruleChange(k, i, block) ==
  IF k = "set" THEN Changed(<<>>)
  ELSE IF ~IsArr(block.inputs) THEN ChangeTypeError
  ELSE
    LET in(j) == IF j <= Len(block.inputs.a) THEN block.inputs.a[j] ELSE Undef
        a == in(1)
        b == in(2)
        \* inputs[0] < 0 ? inputs[0] : inputs[1], and the other one
        negativeInput == IF negativeConstant(a) THEN a ELSE b
        otherOfNegative == IF negativeConstant(a) THEN b ELSE a
        minus(v) == IF IsNum(v) THEN Num(-v.v) ELSE NaN
        \* the input that is a negate block (the second if the first is not)
        negatedInput == IF blockNameOf(a) = "negate" THEN a ELSE b
        otherOfNegated == IF blockNameOf(a) = "negate" THEN b ELSE a
        withFirst(v, build(_)) ==
          IF firstInputOf(v).typeError THEN ChangeTypeError
          ELSE Changed(<<build(firstInputOf(v).result[1])>>)
    IN CASE k = "add" /\ i = 1 -> Changed(<<Block("multiply", <<a, Num(2)>>)>>)
         [] k = "add" /\ i = 2 -> Changed(<<IF a = Num(0) THEN b ELSE a>>)
         [] k = "add" /\ i = 3 -> Changed(<<Num(a.v + b.v)>>)
         [] k \in {"add", "subtract"} /\ i = (IF k = "add" THEN 4 ELSE 6) ->
              Changed(<<Block("subtract", <<otherOfNegative, minus(negativeInput)>>)>>)
         [] k = "add" /\ i = 5 ->
              withFirst(negatedInput,
                        LAMBDA v : Block("subtract", <<otherOfNegated, v>>))
         [] k = "subtract" /\ i = 1 -> Changed(<<Num(0)>>)
         [] k = "subtract" /\ i = 2 -> Changed(<<Block("negate", <<b>>)>>)
         [] k = "subtract" /\ i = 3 -> Changed(<<a>>)
         [] k = "subtract" /\ i = 4 -> Changed(<<Num(a.v - b.v)>>)
         [] k = "subtract" /\ i = 5 ->
              IF firstInputOf(otherOfNegated).typeError THEN ChangeTypeError
              ELSE withFirst(negatedInput,
                     LAMBDA v : Block("subtract",
                                      <<firstInputOf(otherOfNegated).result[1], v>>))
         [] k = "multiply" /\ i = 1 -> Changed(<<Block("power", <<a, Num(2)>>)>>)
         [] k = "multiply" /\ i = 2 -> Changed(<<Num(0)>>)
         [] k = "multiply" /\ i = 3 -> Changed(<<IF a = Num(1) THEN b ELSE a>>)
         [] k = "multiply" /\ i = 4 ->
              Changed(<<Block("negate", <<IF a = Num(-1) THEN b ELSE a>>)>>)
         [] k = "multiply" /\ i = 5 -> Changed(<<Num(a.v * b.v)>>)
         [] k = "multiply" /\ i = 6 ->
              LET x == IF a = Num(2) THEN b ELSE a
              IN Changed(<<Block("add", <<x, x>>)>>)
         [] k = "divide" /\ i = 1 -> Changed(<<a>>)
         [] k = "divide" /\ i = 2 -> Changed(<<Num(1)>>)
         [] k = "divide" /\ i = 3 -> Changed(<<jsDivide(a, b)>>)
         [] k = "power" /\ i = 1 -> Changed(<<a>>)
         [] k = "power" /\ i = 2 -> Changed(<<Block("multiply", <<a, a>>)>>)
         [] k = "modulo" -> Changed(<<Num(0)>>)
         [] k = "absolute" -> withFirst(a, LAMBDA v : Block("absolute", <<v>>))
         [] k \in {"negate", "not"} -> withFirst(a, LAMBDA v : v)
         [] k = "compare" ->
              Changed(<<Bool(in(3) \in {Str("=="), Str(">="), Str("<=")})>>)
         [] k \in {"and", "or"} /\ i = 1 -> Changed(<<a>>)
         [] k = "and" /\ i = 2 -> Changed(<<IF a = Bool(TRUE) THEN b ELSE a>>)
         [] k = "and" /\ i = 3 -> Changed(<<Bool(FALSE)>>)
         [] k = "or" /\ i = 2 -> Changed(<<IF a = Bool(FALSE) THEN b ELSE a>>)
         [] k = "or" /\ i = 3 -> Changed(<<Bool(TRUE)>>)
         [] k = "if" /\ i = 1 ->
              IF IsArr(b) THEN Changed(b.a)
              ELSE [typeError |-> FALSE, isArray |-> FALSE, result |-> <<b>>]
         [] k = "if" /\ i = 2 -> Changed(<<>>)

-----------------------------------------------------------------------------
(* Liveness of variables *)

RECURSIVE getReferencedVariables(_, _)
getReferencedVariables(valueOrBlock, inputVariables) ==
  IF IsStr(valueOrBlock)
  THEN IF isValidProgramVariableName(valueOrBlock, inputVariables)
       THEN {valueOrBlock.v} ELSE {}
  ELSE IF ~IsObj(valueOrBlock) THEN {}
  ELSE LET block == valueOrBlock
           first == IF IsArr(block.inputs) /\ Len(block.inputs.a) > 0
                    THEN block.inputs.a[1] ELSE Undef
       IN CASE block.blockName = "" -> {}
            [] block.blockName = "get" ->
                 IF IsStr(first) /\ isValidProgramVariableName(first, inputVariables)
                 THEN {first.v} ELSE {}
            [] block.blockName = "set" ->
                 getReferencedVariables(block.value, inputVariables)
            [] block.blockName \in {"if", "ifElse"} ->
                 getReferencedVariables(block.condition, inputVariables)
            [] block.blockName = "return" ->
                 getReferencedVariables(first, inputVariables)
            [] OTHER ->
                 IF IsArr(block.inputs)
                 THEN UNION {getReferencedVariables(block.inputs.a[j], inputVariables) :
                               j \in DOMAIN block.inputs.a}
                 ELSE {}

\* liveAtPos[i], i in 0..blocks.length: the variables live before blocks[i]
\* (blocks[i] is the (i+1)-th element of the sequence)
getLiveVarsAtPositions(blocks, inputVariables) ==
  LET n == Len(blocks)
      liveAtPos[i \in 0..n] ==
        IF i = n THEN {"out"}
        ELSE LET current == blocks[i + 1]
                 after == liveAtPos[i + 1]
                 kept == IF blockNameOf(current) = "set" /\ IsStr(current.var)
                         THEN after \ {current.var.v} ELSE after
             IN kept \cup getReferencedVariables(current, inputVariables)
  IN liveAtPos

-----------------------------------------------------------------------------
(* ProgenyProgram.mutate *)

\* the sequence s with its i-th element replaced by the elements of r
Splice(s, i, r) == SubSeq(s, 1, i - 1) \o r \o SubSeq(s, i + 1, Len(s))
\* the sequence s with e inserted before its i-th element
InsertAt(s, i, e) == SubSeq(s, 1, i - 1) \o <<e>> \o SubSeq(s, i, Len(s))

\* JavaScript truthiness of a value
truthy(v) ==
  ~(IsNullish(v) \/ v = Num(0) \/ v = Str("") \/ v = Bool(FALSE) \/ v = NaN)

\* What one mutation does to newBlocks (a copy of this.blocks that shares its
\* block objects): the set of [raised, newBlocks, blocks], blocks being
\* this.blocks at that point.  Sequence positions are the code's indices + 1.
valueMutation(blocks, inputVariables) ==
  LET setBlocks == {i \in DOMAIN blocks : blocks[i].blockName = "set"}
      assigned(i, v) == [blocks EXCEPT ![i].value = v]
  IN IF setBlocks = {} THEN {[raised |-> FALSE, newBlocks |-> blocks, blocks |-> blocks]}
     ELSE {[raised |-> FALSE, newBlocks |-> assigned(i, v), blocks |-> assigned(i, v)] :
             i \in setBlocks, v \in generateInitialValue(inputVariables, 0, 2)}

\* the 'set' adjustment of a replacement block: a live variable, or a Return
adjustReplacement(newBlock, liveAfter) ==
  IF newBlock.blockName # "set" THEN {newBlock}
  ELSE IF liveAfter # {} THEN {[newBlock EXCEPT !.var = Str(v)] : v \in liveAfter}
  ELSE {ReturnOut}

replacement(blocks, inputVariables) ==
  LET liveVarsAtPos == getLiveVarsAtPositions(blocks, inputVariables)
      replaced(idx, newBlock) ==
        IF isValidBlock(newBlock, inputVariables)
        THEN [raised |-> FALSE, newBlocks |-> [blocks EXCEPT ![idx] = newBlock],
              blocks |-> blocks]
        ELSE [raised |-> TRUE, newBlocks |-> blocks, blocks |-> blocks]
      at(idx) ==
        {replaced(idx, newBlock) :
           newBlock \in UNION {adjustReplacement(g, liveVarsAtPos[idx]) :
                                 g \in generateRandomBlock(0, 2, inputVariables)}}
  IN IF Len(blocks) > 1
     THEN UNION {at(idx) : idx \in 1..(Len(blocks) - 1)}
     ELSE {[raised |-> FALSE, newBlocks |-> blocks, blocks |-> blocks]}

\* generateRandomBlock(isAction = false) builds no 'set' block, so the branch
\* of the insertion that renames the variable of a new 'set' is never taken.
\* an insertion that may also insert after the last block
Faulty_insertion(blocks, inputVariables) ==
  {[raised |-> FALSE, newBlocks |-> InsertAt(blocks, insertIdx, newBlock),
    blocks |-> blocks] :
     insertIdx \in 1..(Len(blocks) + 1),
     newBlock \in {g \in generateRandomBlock(0, 2, inputVariables) :
                     g.blockName # "set"}}

insertion(blocks, inputVariables) ==
  {IF isValidBlock(newBlock, inputVariables)
   THEN [raised |-> FALSE, newBlocks |-> InsertAt(blocks, insertIdx, newBlock),
         blocks |-> blocks]
   ELSE [raised |-> TRUE, newBlocks |-> blocks, blocks |-> blocks] :
     insertIdx \in 1..Len(blocks),
     newBlock \in {g \in generateRandomBlock(0, 2, inputVariables) :
                     g.blockName # "set"}}

removal(blocks, inputVariables) ==
  LET liveVarsAtPos == getLiveVarsAtPositions(blocks, inputVariables)
      skipped(idx) == /\ blocks[idx].blockName = "set"
                      /\ IsStr(blocks[idx].var)
                      /\ blocks[idx].var.v \in liveVarsAtPos[idx]
  IN IF Len(blocks) > 2
     THEN {[raised |-> FALSE,
            newBlocks |-> IF skipped(idx) THEN blocks ELSE Splice(blocks, idx, <<>>),
            blocks |-> blocks] : idx \in 1..(Len(blocks) - 1)}
     ELSE {[raised |-> FALSE, newBlocks |-> blocks, blocks |-> blocks]}

shuffle(blocks) ==
  IF Len(blocks) > 2
  THEN UNION {{[raised |-> FALSE,
                newBlocks |-> [blocks EXCEPT ![idx1] = blocks[idx2],
                                             ![idx2] = blocks[idx1]],
                blocks |-> blocks] :
                 idx2 \in {j \in 1..(Len(blocks) - 1) : Len(blocks) > 3 => j # idx1}} :
              idx1 \in 1..(Len(blocks) - 1)}
  ELSE {[raised |-> FALSE, newBlocks |-> blocks, blocks |-> blocks]}

\* the per-block mutation: a rule of the catalog applied to a non-Return block
ruleMutation(blocks) ==
  LET same == [raised |-> FALSE, newBlocks |-> blocks, blocks |-> blocks]
      raise == [raised |-> TRUE, newBlocks |-> blocks, blocks |-> blocks]
      candidateIdxs == {i \in DOMAIN blocks : blocks[i].blockName # "return"}
      at(idx) ==
        LET block == blocks[idx]
            k == block.blockName
            rules == 1..(IF HasDef(k) THEN ruleCount(k) ELSE 0)
            possible == {i \in rules : ruleCondition(k, i, block) = "true"}
            applied(i) ==
              LET change == ruleChange(k, i, block)
              IN IF change.typeError THEN raise
                 ELSE IF change.isArray
                 THEN [same EXCEPT !.newBlocks = Splice(blocks, idx, change.result)]
                 ELSE IF truthy(change.result[1])
                 THEN [same EXCEPT !.newBlocks = [blocks EXCEPT ![idx] = change.result[1]]]
                 ELSE same
        IN IF \E i \in rules : ruleCondition(k, i, block) = "TypeError" THEN {raise}
           ELSE IF possible = {} THEN {same}
           ELSE {applied(i) : i \in possible}
  IN IF candidateIdxs = {} THEN {same} ELSE UNION {at(idx) : idx \in candidateIdxs}

\* no kind of the catalog has an `expand` property
expansion(blocks) == {[raised |-> FALSE, newBlocks |-> blocks, blocks |-> blocks]}

\* the tail of mutate: a Return is appended if none is left, the blocks are
\* filtered by isValidBlock and this.blocks is assigned
finishMutate(step, inputVariables) ==
  IF step.raised THEN {[threw |-> TRUE, blocks |-> step.blocks]}
  ELSE IF \E i \in DOMAIN step.newBlocks : IsNullish(step.newBlocks[i])
  THEN {[threw |-> TRUE, blocks |-> step.blocks]}
  ELSE
    LET withReturn ==
          IF \E i \in DOMAIN step.newBlocks :
               blockNameOf(step.newBlocks[i]) = "return"
          THEN step.newBlocks ELSE Append(step.newBlocks, ReturnOut)
        filtered == filterValid(withReturn, inputVariables)
        reset == {<<SetBlock("out", v), ReturnOut>> :
                    v \in generateInitialValue(inputVariables, 0, 2)}
    IN IF filtered.threw THEN {[threw |-> TRUE, blocks |-> step.blocks]}
       ELSE IF Len(filtered.blocks) = 0 \/ ~hasReturn(filtered.blocks)
       THEN {Done(b) : b \in reset}
       ELSE {Done(filtered.blocks)}

\* the mutation kinds, in the order of the thresholds of mutationType
MutationKinds ==
  {"value", "replacement", "insertion", "removal", "shuffle", "rule", "expansion"}

mutationStep(kind, blocks, inputVariables) ==
  CASE kind = "value" -> valueMutation(blocks, inputVariables)
    [] kind = "replacement" -> replacement(blocks, inputVariables)
    [] kind = "insertion" -> insertion(blocks, inputVariables)
    [] kind = "removal" -> removal(blocks, inputVariables)
    [] kind = "shuffle" -> shuffle(blocks)
    [] kind = "rule" -> ruleMutation(blocks)
    [] kind = "expansion" -> expansion(blocks)

\* mutate(): the set of [threw, blocks], blocks being this.blocks afterwards
mutateKind(kind, blocks, inputVariables) ==
  UNION {finishMutate(step, inputVariables) :
           step \in mutationStep(kind, blocks, inputVariables)}

mutate(blocks, inputVariables) ==
  UNION {mutateKind(kind, blocks, inputVariables) : kind \in MutationKinds}

\* Programs mutate is called on: valid Programs over InputVars, with a
\* numeric and a boolean variable, top-level reporter blocks as the
\* replacement and the insertion leave them, a self-assignment, an if, and
\* an if whose action list reads a variable assigned before it.
MutatePool ==
  {<<SetBlock("out", Str("x")), ReturnOut>>,
   <<SetBlock("b0", Bool(TRUE)), ReturnOut>>,
   <<SetBlock("v0", NumberOutputBlock), SetBlock("out", Str("v0")), ReturnOut>>,
   <<Block("subtract", <<Str("x"), Str("x")>>), SetBlock("out", Str("x")), ReturnOut>>,
   <<SetBlock("out", Block("get", <<Str("out")>>)), ReturnOut>>,
   <<IfBlock(Bool(TRUE), <<SetBlock("out", Str("y"))>>), ReturnOut>>,
   <<SetBlock("v0", Str("x")), IfBlock(Bool(TRUE), <<SetBlock("out", Str("v0"))>>),
     ReturnOut>>,
   <<SetBlock("out", Str("x")), Block("add", <<Num(0), Str("x")>>),
     Block("negate", <<Block("negate", <<Str("y")>>)>>), ReturnOut>>}

CallMutate ==
  /\ call = Idle
  /\ \E blocks \in MutatePool, kind \in MutationKinds :
       \E outcome \in mutateKind(kind, blocks, InputVars) :
         /\ call' = [op |-> "mutate", blocks |-> blocks, kind |-> kind,
                     inputVariables |-> InputVars]
         /\ ret' = outcome
         /\ UNCHANGED runVars

InitMutate == call = Idle /\ ret = Undef /\ NotRunning

NextMutate == CallMutate

SpecMutate == InitMutate /\ [][NextMutate]_vars

\* C2: after mutate() on a valid Program the block list is non-empty, every
\* block passes isValidBlock, and at least one Return block is present.
C2_MutationClosure ==
  call.op = "mutate" =>
    /\ ~ret.threw
    /\ Len(ret.blocks) > 0
    /\ allValid(ret.blocks, call.inputVariables)
    /\ hasReturn(ret.blocks)

RECURSIVE readsOf(_, _)
\* the variables a statement reads, those read in the action lists of an
\* If or IfElse included
readsOf(block, inputVariables) ==
  getReferencedVariables(block, inputVariables) \cup
  (IF IsObj(block) /\ IsArr(block.actions)
   THEN UNION {readsOf(block.actions.a[j], inputVariables) :
                 j \in DOMAIN block.actions.a}
   ELSE {}) \cup
  (IF IsObj(block) /\ IsArr(block.elseActions)
   THEN UNION {readsOf(block.elseActions.a[j], inputVariables) :
                 j \in DOMAIN block.elseActions.a}
   ELSE {})

\* v is live after the idx-th statement: a later statement reads it before a
\* top-level Set overwrites it, or it is out and nothing overwrites it
liveAfter(blocks, idx, v, inputVariables) ==
  LET live[i \in idx..Len(blocks)] ==
        IF i = Len(blocks) THEN v = "out"
        ELSE LET nxt == blocks[i + 1]
             IN IF v \in readsOf(nxt, inputVariables) THEN TRUE
                ELSE IF blockNameOf(nxt) = "set" /\ nxt.var = Str(v) THEN FALSE
                ELSE live[i + 1]
  IN live[idx]

\* C16: the block-deletion mutation never removes a Set block whose target
\* variable is live immediately after it, reads inside If/IfElse action
\* lists and the final Return included.
C16_RemovalKeepsLive ==
  (call.op = "mutate" /\ call.kind = "removal" /\ ~ret.threw) =>
    \A idx \in 1..(Len(call.blocks) - 1) :
      (/\ call.blocks[idx].blockName = "set"
       /\ liveAfter(call.blocks, idx, call.blocks[idx].var.v, call.inputVariables))
        => ret.blocks # Splice(call.blocks, idx, <<>>)

-----------------------------------------------------------------------------
(* The interpreter: ProgenyProgram.run.  The actions of the arithmetic and  *)
(* boolean kinds are modelled on integers and NaN; divide, power, pi and e, *)
(* whose values are not integers, are not.                                  *)

\* a * b
jsMul(a, b) == IF a = NaN \/ b = NaN THEN NaN ELSE Num(a.v * b.v)

\* a % b: NaN for b = 0, otherwise the remainder with the sign of a
jsMod(a, b) ==
  IF a = NaN \/ b = NaN THEN NaN
  ELSE IF b.v = 0 THEN NaN
  ELSE LET m == jsAbs(a).v % jsAbs(b).v
       IN Num(IF a.v < 0 THEN -m ELSE m)

RECURSIVE natPow(_, _)
natPow(base, n) == IF n = 0 THEN 1 ELSE base * natPow(base, n - 1)

\* a ** b for integers a and b
jsPow(a, b) ==
  IF b = Num(0) THEN Num(1)
  ELSE IF a = NaN \/ b = NaN THEN NaN
  ELSE IF b.v > 0 THEN Num(natPow(a.v, b.v))
  ELSE jsDivide(Num(1), Num(natPow(a.v, -b.v)))

\* blockDef.action(...resolvedInputs)
action(k, in) ==
  CASE k = "add" -> jsAdd(in[1], in[2])
    [] k = "subtract" -> jsSub(in[1], in[2])
    [] k = "multiply" -> jsMul(in[1], in[2])
    [] k = "divide" -> jsDivide(in[1], in[2])
    [] k = "power" -> jsPow(in[1], in[2])
    [] k = "modulo" -> jsMod(in[1], in[2])
    [] k = "absolute" -> jsAbs(in[1])
    [] k = "negate" -> jsSub(Num(0), in[1])
    [] k = "and" -> Bool(in[1].v /\ in[2].v)
    [] k = "or" -> Bool(in[1].v \/ in[2].v)
    [] k = "not" -> Bool(~in[1].v)

\* state.vars[name] (Undef when the variable is not defined)
varOf(state, name) ==
  IF name \in DOMAIN state.vars THEN state.vars[name] ELSE Undef

RECURSIVE resolveInput(_, _, _, _), reporterValue(_, _, _)

\* executeBlock on a reporter block: the value of its action
reporterValue(block, state, inputVariables) ==
  LET def == blockDefs[block.blockName]
      resolved == IF def.hasInputs /\ IsArr(block.inputs)
                  THEN [i \in DOMAIN block.inputs.a |->
                          resolveInput(block.inputs.a[i], state,
                                       IF i <= Len(def.inputs) THEN def.inputs[i] ELSE "",
                                       inputVariables)]
                  ELSE <<>>
  IN action(block.blockName, resolved)

\* The value resolveInput returns.  On an object that is not a valid block
\* its isValidBlock call raises and there is no value (resolveInputOutcome);
\* the blocks nested in a valid block are valid.
resolveInput(input, state, expectedType, inputVariables) ==
  LET default == IF expectedType = "boolean" THEN Bool(FALSE) ELSE Num(0)
      known(name) == name \in Range(variables) \cup Range(inputVariables)
      typed(value) == \/ expectedType = "number" /\ typeofNumber(value)
                      \/ expectedType = "boolean" /\ IsBool(value)
  IN IF IsNullish(input) THEN default
     ELSE IF typeofNumber(input) /\ expectedType = "number" THEN input
     ELSE IF IsBool(input) /\ expectedType = "boolean" THEN input
     ELSE IF IsStr(input)
     THEN IF expectedType = "variable"
          THEN (IF known(input.v) THEN input ELSE Str(variables[1]))
          ELSE IF expectedType \in {"number", "boolean"}
          THEN (IF typed(varOf(state, input.v)) THEN varOf(state, input.v)
                ELSE default)
          ELSE IF expectedType = OpsType
          THEN (IF input.v \in Range(operators) THEN input ELSE Str("=="))
          ELSE default
     ELSE IF IsObj(input) /\ isValidBlock(input, inputVariables)
     THEN IF OutputOf(input.blockName) = expectedType /\
             expectedType \in {"number", "boolean"}
          THEN reporterValue(input, state, inputVariables)
          ELSE IF input.blockName = "get" /\ expectedType \in {"number", "boolean"}
          THEN LET key == IF IsArr(input.inputs) /\ Len(input.inputs.a) > 0
                          THEN input.inputs.a[1] ELSE Undef
               IN IF ~IsStr(key) \/ ~known(key.v) THEN default
                  ELSE IF typed(varOf(state, key.v)) THEN varOf(state, key.v)
                  ELSE default
          ELSE default
     ELSE default

RECURSIVE executeBlock(_, _, _), executeAll(_, _, _)

\* executeBlock(block, runTimeInputs, state) on a valid block: the state it
\* leaves (a reporter block at the top level leaves it as it is)
executeBlock(block, state, inputVariables) ==
  IF block.blockName = "set"
  THEN IF IsStr(block.var)
       THEN LET resolved ==
                  resolveInput(block.value, state,
                               IF startsWithB(block.var.v) THEN "boolean" ELSE "number",
                               inputVariables)
                name == block.var.v
            IN IF typeofNumber(resolved) \/ IsBool(resolved)
               THEN [state EXCEPT !.vars =
                       [n \in DOMAIN state.vars \cup {name} |->
                          IF n = name THEN resolved ELSE state.vars[n]]]
               ELSE state
       ELSE state
  ELSE IF block.blockName = "return"
  THEN IF IsArr(block.inputs) /\ Len(block.inputs.a) > 0
       THEN LET valueToReturn ==
                  resolveInput(block.inputs.a[1], state, "number", inputVariables)
            IN IF typeofNumber(valueToReturn)
               THEN [state EXCEPT !.output = valueToReturn] ELSE state
       ELSE state
  ELSE IF block.blockName \in {"if", "ifElse"}
  THEN LET condition == resolveInput(block.condition, state, "boolean", inputVariables)
           none == <<>>
           actionsToExecute ==
             IF truthy(condition)
             THEN (IF IsArr(block.actions) THEN block.actions.a ELSE none)
             ELSE IF block.blockName = "ifElse" /\ IsArr(block.elseActions)
             THEN block.elseActions.a ELSE none
       IN executeAll(actionsToExecute, state, inputVariables)
  ELSE state

RECURSIVE Faulty_executeAll(_, _, _)
\* a loop over the blocks that a top-level Return ends
Faulty_executeAll(blocks, state, inputVariables) ==
  IF Len(blocks) = 0 THEN state
  ELSE IF Head(blocks).blockName = "return"
  THEN executeBlock(Head(blocks), state, inputVariables)
  ELSE Faulty_executeAll(Tail(blocks),
                         executeBlock(Head(blocks), state, inputVariables),
                         inputVariables)

\* the blocks executed one after the other (a Return does not stop the run)
executeAll(blocks, state, inputVariables) ==
  IF Len(blocks) = 0 THEN state
  ELSE executeAll(Tail(blocks),
                  executeBlock(Head(blocks), state, inputVariables),
                  inputVariables)

\* a State whose output is not set when the run starts
Faulty_initialState(runTimeInputs, inputVariables) ==
  [vars |-> [n \in Range(variables) \cup Range(inputVariables) |-> Num(0)],
   output |-> Undef]

\* the State run starts from: out, v0, v1 and v2 are 0, an input variable
\* has the value runTimeInputs gives it, or 0
initialState(runTimeInputs, inputVariables) ==
  [vars |-> [n \in Range(variables) \cup Range(inputVariables) |->
               IF n \in Range(inputVariables)
               THEN (IF n \in DOMAIN runTimeInputs THEN Num(runTimeInputs[n])
                     ELSE Num(0))
               ELSE Num(0)],
   output |-> Num(0)]

\* program.run(runTimeInputs): state.output after every block ran.  The
\* isValidBlock call on a block that is not valid throws, so run has a value
\* only on Programs whose blocks are all valid.
run(blocks, runTimeInputs, inputVariables) ==
  CASE \A i \in DOMAIN blocks : isValidBlock(blocks[i], inputVariables) ->
         executeAll(blocks, initialState(runTimeInputs, inputVariables),
                    inputVariables).output

\* the State of a run before its first block and after each of its blocks
statesOfRun(blocks, runTimeInputs, inputVariables) ==
  LET st[i \in 0..Len(blocks)] ==
        IF i = 0 THEN initialState(runTimeInputs, inputVariables)
        ELSE executeBlock(blocks[i], st[i - 1], inputVariables)
  IN [i \in 1..(Len(blocks) + 1) |-> st[i - 1]]

\* Programs that are run: what the constructor makes of the lists of at most
\* MaxRunLen of these valid blocks
RunBlockPool ==
  {SetBlock("out", Str("x")), SetBlock("out", Num(5)),
   SetBlock("v0", NumberOutputBlock), ReturnOut, ReturnBlock(Str("v0")),
   IfBlock(Block("not", <<Bool(FALSE)>>), <<SetBlock("out", Str("y"))>>)}

MaxRunLen == 3

RunPrograms ==
  {constructor(blocks, InputVars).blocks :
     blocks \in SeqsUpTo(RunBlockPool, MaxRunLen)}

RunInputs == {[x |-> 2, y |-> 0], [x |-> -1, y |-> 3]}

CallRun ==
  /\ call = Idle
  /\ \E blocks \in RunPrograms, runTimeInputs \in RunInputs :
       /\ call' = [op |-> "run", blocks |-> blocks,
                   runTimeInputs |-> runTimeInputs]
       /\ ret' = [output |-> run(blocks, runTimeInputs, InputVars),
                  states |-> statesOfRun(blocks, runTimeInputs, InputVars)]
       /\ UNCHANGED runVars

\* Programs run on a boolean input: they return, store or test the input x
BooleanInputPrograms ==
  {constructor(blocks, InputVars).blocks :
     blocks \in {<<ReturnBlock(Str("x"))>>,
                 <<SetBlock("out", Str("x")), ReturnOut>>,
                 <<SetBlock("v0", NumberOutputBlock), ReturnBlock(Str("v0"))>>,
                 <<SetBlock("b0", Str("x")), ReturnBlock(GetNumeric)>>,
                 <<IfBlock(Str("x"), <<SetBlock("out", Num(5))>>), ReturnOut>>}}

\* program.run(runTimeInputs) with a boolean for the input x, which
\* initialVars takes as it is (program.ts:916-918)
CallRunBooleanInput ==
  /\ call = Idle
  /\ \E blocks \in BooleanInputPrograms, x \in BOOLEAN, y \in {0, 3} :
       LET start == initialState([x |-> 0, y |-> y], InputVars)
           st[i \in 0..Len(blocks)] ==
             IF i = 0
             THEN [start EXCEPT !.vars = [n \in DOMAIN start.vars |->
                                           IF n = "x" THEN Bool(x)
                                           ELSE start.vars[n]]]
             ELSE executeBlock(blocks[i], st[i - 1], InputVars)
       IN /\ \A i \in DOMAIN blocks : isValidBlock(blocks[i], InputVars)
          /\ call' = [op |-> "runBooleanInput", blocks |-> blocks, x |-> x,
                      y |-> y]
          /\ ret' = [output |-> st[Len(blocks)].output,
                     states |-> [i \in 1..(Len(blocks) + 1) |-> st[i - 1]]]
          /\ UNCHANGED runVars

InitRun == call = Idle /\ ret = Undef /\ NotRunning

NextRun == CallRun \/ CallRunBooleanInput

SpecRun == InitRun /\ [][NextRun]_vars

\* C11: in every execution of run the variable out is in the environment
\* before and after every block, and when the run ends the value of out is
\* the value run returns.
C11_OutHoldsResult ==
  call.op = "run" =>
    /\ \A i \in DOMAIN ret.states : "out" \in DOMAIN ret.states[i].vars
    /\ ret.states[Len(ret.states)].vars["out"] = ret.output

\* The evaluations select starts with Promise.all: each is a call of run
\* with a State of its own, and they advance in any order, a block at a time.
\* Two of them are followed, on the same Program or on different ones.
Faulty_withState(states, i, state) == [j \in DOMAIN states |-> state]
\* the State of evaluation i is replaced
withState(states, i, state) == [states EXCEPT ![i] = state]

InterleavedPrograms ==
  {<<SetBlock("out", Str("x")), ReturnOut>>,
   <<SetBlock("v0", NumberOutputBlock), SetBlock("out", Str("v0")), ReturnOut>>,
   <<SetBlock("out", Num(5)), ReturnBlock(Str("v0"))>>,
   <<IfBlock(Block("not", <<Bool(FALSE)>>), <<SetBlock("out", Str("y"))>>),
     ReturnOut, SetBlock("out", Num(5))>>}

\* Promise.all(this.population.map(...)): every evaluation calls run, which
\* builds its State
StartRuns ==
  /\ call = Idle
  /\ \E programs \in SeqsOfLen(InterleavedPrograms, 2),
        runTimeInputs \in SeqsOfLen(RunInputs, 2) :
       /\ call' = [op |-> "runs", programs |-> programs,
                   runTimeInputs |-> runTimeInputs]
       /\ ret' = [states |-> [i \in 1..2 |->
                                initialState(runTimeInputs[i], InputVars)],
                  next |-> [i \in 1..2 |-> 1],
                  programs |-> programs,
                  runTimeInputs |-> runTimeInputs]
  /\ UNCHANGED runVars

\* one of the evaluations executes its next block
StepRun ==
  /\ call # Idle
  /\ call.op = "runs"
  /\ \E i \in DOMAIN ret.next :
       /\ ret.next[i] <= Len(ret.programs[i])
       /\ ret' = [ret EXCEPT
                    !.states = withState(ret.states, i,
                                 executeBlock(ret.programs[i][ret.next[i]],
                                              ret.states[i], InputVars)),
                    !.next[i] = ret.next[i] + 1]
  /\ UNCHANGED <<call, runVars>>

InitRuns == call = Idle /\ ret = Undef /\ NotRunning

NextRuns == StartRuns \/ StepRun

SpecRuns == InitRuns /\ [][NextRuns]_vars

\* evaluation i has executed all its blocks
runEnded(i) == ret.next[i] > Len(ret.programs[i])

\* C12: an evaluation leaves the blocks of its Program and its runtimeInputs
\* as they were, and when it ends its output is the output of run on that
\* Program and those inputs, whatever the order in which the evaluations
\* advanced.
C12_RunsIndependent ==
  (call # Idle /\ call.op = "runs") =>
    /\ ret.programs = call.programs
    /\ ret.runTimeInputs = call.runTimeInputs
    /\ \A i \in DOMAIN ret.next :
         runEnded(i) =>
           ret.states[i].output =
             run(call.programs[i], call.runTimeInputs[i], InputVars)

\* the second evaluation ended while the first, on another Program, was
\* between two of its blocks, and both have assigned variables
C12_Witness ==
  /\ call # Idle
  /\ call.op = "runs"
  /\ call.programs[1] # call.programs[2]
  /\ ret.next[1] > 1
  /\ ~runEnded(1)
  /\ runEnded(2)
  /\ ret.states[1].vars # initialState(call.runTimeInputs[1], InputVars).vars
  /\ ret.states[2].output # Num(0)

\* the top-level Returns of a program
returnsAt(blocks) == {i \in DOMAIN blocks : blocks[i].blockName = "return"}

lastReturn(blocks) ==
  CHOOSE i \in returnsAt(blocks) : \A j \in returnsAt(blocks) : j <= i

\* C23: a Return does not halt run: every top-level statement is executed in
\* list order, also after a Return, and the value run returns is the value
\* written by the last Return executed (0 if no Return executes).
C23_ReturnDoesNotHalt ==
  call.op = "run" =>
    IF returnsAt(call.blocks) = {} THEN ret.output = Num(0)
    ELSE LET k == lastReturn(call.blocks)
         IN ret.output = resolveInput(call.blocks[k].inputs.a[1], ret.states[k],
                                      "number", InputVars)

\* a run with two Returns and a set between them that changes what the
\* second one writes
C23_Witness ==
  /\ call.op = "run"
  /\ Cardinality(returnsAt(call.blocks)) = 2
  /\ LET first == CHOOSE i \in returnsAt(call.blocks) : i # lastReturn(call.blocks)
     IN /\ ret.states[first + 1].output # ret.output
        /\ ret.states[first + 1].vars # ret.states[lastReturn(call.blocks)].vars

-----------------------------------------------------------------------------
(* Progeny.run on the squareNumber problem.  A Program of the population is *)
(* its sequence of blocks; its input variables are testInputs.              *)

testInputs == <<"x">>

MaxPopulationSize == 2
MaxGenerations == 2
MaxTrials == 2
MaxEvaluations == 2
MaxCaseInput == 1
EvaluationCases == 1
MaxMutationsPerChild == 2

\* testCase.generateCases(count): count cases of an input x and its square
generateCases(count) ==
  SeqsOfLen({[inputs |-> [x |-> n], expected |-> n * n] :
               n \in (-MaxCaseInput)..MaxCaseInput}, count)

\* The values Progeny.evaluate(program, testCase) can return, over the cases
\* generateCases can draw
fitnessesOf(blocks) ==
  {evaluate([i \in DOMAIN cases |-> run(blocks, cases[i].inputs, testInputs)],
            [i \in DOMAIN cases |-> cases[i].expected]) :
     cases \in generateCases(EvaluationCases)}

\* Progeny.initialize(testInputs): the populations of populationSize
\* created Programs
Faulty_initialize(populationSize, inputVariables) ==
  SeqsOfLen({o.blocks : o \in create(<<>>, inputVariables)}, populationSize + 1)
initialize(populationSize, inputVariables) ==
  SeqsOfLen({o.blocks : o \in create(<<>>, inputVariables)}, populationSize)

MaxInitialPopulation == 2

\* the input variables of a problem: none, one or two
ProblemInputs == {<<>>, testInputs, InputVars}

CallInitialize ==
  /\ call = Idle
  /\ \E populationSize \in 1..MaxInitialPopulation,
        inputVariables \in ProblemInputs :
       /\ call' = [op |-> "initialize", populationSize |-> populationSize,
                   inputVariables |-> inputVariables]
       /\ \E pop \in initialize(populationSize, inputVariables) :
            ret' = [population |-> pop]
       /\ UNCHANGED runVars

InitInitialize == call = Idle /\ ret = Undef /\ NotRunning

NextInitialize == CallInitialize

SpecInitialize == InitInitialize /\ [][NextInitialize]_vars

Faulty_needsOffspring(newPop, populationSize) == Len(newPop) < populationSize - 1
needsOffspring(newPop, populationSize) == Len(newPop) < populationSize

RECURSIVE mutateTimes(_, _)
\* child.mutate() applied count times: the outcomes, a throw ending the loop
mutateTimes(blocks, count) ==
  IF count = 0 THEN {Done(blocks)}
  ELSE UNION {IF o.threw THEN {o} ELSE mutateTimes(o.blocks, count - 1) :
                o \in mutate(blocks, testInputs)}

\* One pass of the offspring loop: parent1 and parent2 drawn from the
\* population, their child after the mutations the ten attempts applied, and
\* the number mutationCount of those mutations
offspring(pop) ==
  UNION {UNION {{[threw |-> o.threw, blocks |-> o.blocks, parent1 |-> pop[i],
                  parent2 |-> pop[j], mutationCount |-> count] :
                   o \in IF child.threw THEN {child}
                         ELSE mutateTimes(child.blocks, count)} :
                  child \in crossover(pop[i], pop[j], testInputs)} :
           i \in DOMAIN pop, j \in DOMAIN pop, count \in 0..MaxMutationsPerChild}

\* item has a fitness and no program of the evaluated population has a
\* greater one
isFittest(item, evaluated) ==
  /\ item.fitness # NaN
  /\ \A i \in DOMAIN evaluated : ~jsGreater(evaluated[i].fitness, item.fitness)

\* run is called: bestProgram = null, bestFitness = -Infinity, trial = 0
Init ==
  /\ call = Idle
  /\ ret = Undef
  /\ pc = "trial"
  /\ config \in [populationSize : 0..MaxPopulationSize,
                 maxGenerations : 1..MaxGenerations,
                 trials : 1..MaxTrials]
  /\ config.populationSize * config.maxGenerations * config.trials <= MaxEvaluations
  /\ population = <<>>
  /\ newPopulation = <<>>
  /\ trial = 0
  /\ gen = 0
  /\ bestProgram = Null
  /\ bestFitness = NegInfinity
  /\ returned = Undef
  /\ selectCount = 0
  /\ trialResults = <<>>
  /\ breeding = Null
  /\ lastSelect = Null

\* a trial starts: this.initialize(inputVarNames), then the generation loop
Initialize ==
  /\ pc = "trial"
  /\ trial < config.trials
  /\ population' \in initialize(config.populationSize, testInputs)
  /\ gen' = 0
  /\ lastSelect' = Null
  /\ pc' = "gen"
  /\ UNCHANGED <<call, ret, config, newPopulation, trial, bestProgram,
                 bestFitness, returned, selectCount, trialResults, breeding>>

\* gen < maxGenerations: this.select(testCase)
Select ==
  /\ pc = "gen"
  /\ gen < config.maxGenerations
  /\ \E fitness \in [DOMAIN population -> UNION {fitnessesOf(p) : p \in Range(population)}] :
       /\ \A i \in DOMAIN population : fitness[i] \in fitnessesOf(population[i])
       /\ LET evaluated == [i \in DOMAIN population |->
                              [program |-> population[i], fitness |-> fitness[i]]]
          IN \E survivors \in selectedSurvivors(evaluated, config.populationSize) :
               /\ population' = [i \in DOMAIN survivors |-> survivors[i].program]
               /\ population' \in select(evaluated, config.populationSize)
               /\ lastSelect' =
                    IF Len(survivors) = 0 THEN Null
                    ELSE [top |-> survivors[1].program,
                          isFittest |-> isFittest(survivors[1], evaluated),
                          noNaN |-> \A i \in DOMAIN evaluated :
                                      evaluated[i].fitness # NaN]
  /\ selectCount' = selectCount + 1
  /\ pc' = "selected"
  /\ UNCHANGED <<call, ret, config, newPopulation, trial, gen, bestProgram,
                 bestFitness, returned, trialResults, breeding>>

\* the population is empty after selection and this is not the last
\* generation: this.initialize again, and break when it is still empty
Reinitialize ==
  /\ pc = "selected"
  /\ Len(population) = 0
  /\ gen < config.maxGenerations - 1
  /\ population' \in initialize(config.populationSize, testInputs)
  /\ IF Len(population') = 0
     THEN /\ trial' = trial + 1
          /\ IF trial + 1 < config.trials
             THEN pc' = "trial" /\ UNCHANGED returned
             ELSE pc' = "done" /\ returned' = bestProgram
     ELSE pc' = "reinitialized" /\ UNCHANGED <<trial, returned>>
  /\ UNCHANGED <<call, ret, config, newPopulation, gen, bestProgram,
                 bestFitness, selectCount, trialResults, breeding, lastSelect>>

\* the break of the last generation written as a continue
Faulty_BreakEmpty ==
  /\ pc = "selected"
  /\ Len(population) = 0
  /\ ~(gen < config.maxGenerations - 1)
  /\ gen' = gen + 1
  /\ pc' = "gen"
  /\ UNCHANGED <<call, ret, config, population, newPopulation, trial,
                 bestProgram, bestFitness, returned, selectCount, trialResults,
                 breeding, lastSelect>>

\* The population is empty after selection in the last generation: break.
\* The trial ends with an empty population, so nothing is evaluated; run
\* goes on to the next trial or returns bestProgram.
BreakEmpty ==
  /\ pc = "selected"
  /\ Len(population) = 0
  /\ ~(gen < config.maxGenerations - 1)
  /\ trial' = trial + 1
  /\ IF trial + 1 < config.trials
     THEN pc' = "trial" /\ UNCHANGED returned
     ELSE pc' = "done" /\ returned' = bestProgram
  /\ UNCHANGED <<call, ret, config, population, newPopulation, gen,
                 bestProgram, bestFitness, selectCount, trialResults, breeding, lastSelect>>

\* the offspring loop started without an elite (numElites = 0)
Faulty_Elites ==
  /\ pc \in {"selected", "reinitialized"}
  /\ Len(population) > 0
  /\ newPopulation' = <<>>
  /\ pc' = "offspring"
  /\ UNCHANGED <<call, ret, config, population, trial, gen, bestProgram,
                 bestFitness, returned, selectCount, trialResults, breeding, lastSelect>>

\* newPopulation starts as the numElites = 1 first Programs of the population
Elites ==
  /\ pc \in {"selected", "reinitialized"}
  /\ Len(population) > 0
  /\ newPopulation' = SubSeq(population, 1, 1)
  /\ pc' = "offspring"
  /\ UNCHANGED <<call, ret, config, population, trial, gen, bestProgram,
                 bestFitness, returned, selectCount, trialResults, breeding, lastSelect>>

\* One pass of the offspring loop: the child is pushed, or crossover or
\* mutate throws and the promise run returned is rejected
Offspring ==
  /\ pc = "offspring"
  /\ needsOffspring(newPopulation, config.populationSize)
  /\ \E child \in offspring(population) :
       IF child.threw
       THEN pc' = "rejected" /\ UNCHANGED <<newPopulation, breeding>>
       ELSE /\ newPopulation' = Append(newPopulation, child.blocks)
            /\ breeding' = [parent1 |-> child.parent1, parent2 |-> child.parent2,
                            mutationCount |-> child.mutationCount]
            /\ UNCHANGED pc
  /\ UNCHANGED <<call, ret, config, population, trial, gen, bestProgram,
                 bestFitness, returned, selectCount, trialResults, lastSelect>>

\* the offspring loop ends: this.population = newPopulation, gen++ (the
\* local newPopulation goes out of scope)
Replace ==
  /\ pc = "offspring"
  /\ ~needsOffspring(newPopulation, config.populationSize)
  /\ population' = newPopulation
  /\ newPopulation' = <<>>
  /\ breeding' = Null
  /\ gen' = gen + 1
  /\ pc' = "gen"
  /\ UNCHANGED <<call, ret, config, trial, bestProgram,
                 bestFitness, returned, selectCount, trialResults, lastSelect>>

\* The generation loop ends with a population: population[0] is evaluated
\* and replaces bestProgram when its fitness is greater than bestFitness; run
\* goes on to the next trial or returns bestProgram.
ReportTrial ==
  /\ pc = "gen"
  /\ ~(gen < config.maxGenerations)
  /\ Len(population) > 0
  /\ \E trialFitness \in fitnessesOf(population[1]) :
       LET better == jsGreater(trialFitness, bestFitness)
           best == IF better THEN population[1] ELSE bestProgram
       IN /\ trialResults' = Append(trialResults,
                                    [program |-> population[1], fitness |-> trialFitness])
          /\ bestFitness' = IF better THEN trialFitness ELSE bestFitness
          /\ bestProgram' = best
          /\ IF trial + 1 < config.trials
             THEN pc' = "trial" /\ UNCHANGED returned
             ELSE pc' = "done" /\ returned' = best
  /\ trial' = trial + 1
  /\ UNCHANGED <<call, ret, config, population, newPopulation, gen, selectCount, breeding, lastSelect>>

Next ==
  \/ Initialize
  \/ Select
  \/ Reinitialize
  \/ BreakEmpty
  \/ Elites
  \/ Offspring
  \/ Replace
  \/ ReportTrial

Spec == Init /\ [][Next]_vars

-----------------------------------------------------------------------------
(* Claims about Progeny.run *)

\* C4: for every configuration with populationSize >= 1, maxGenerations >= 1
\* and trials >= 1, run returns a Program, never null: the trial-best program
\* whose end-of-trial fitness is the highest over all trials.
C4_RunReturnsBest ==
  (pc = "done" /\ config.populationSize >= 1) =>
    /\ returned # Null
    /\ \E i \in DOMAIN trialResults :
         /\ trialResults[i].program = returned
         /\ \A j \in DOMAIN trialResults :
              ~jsGreater(trialResults[j].fitness, trialResults[i].fitness)

\* C5: after Initialize (at the start of a trial or after an empty
\* selection) and after every Breed step, the population holds exactly
\* populationSize Programs.
C5_PopulationSizeFixed ==
  pc \in {"gen", "reinitialized"} => Len(population) = config.populationSize

\* a Breed step that added a child to the elite has just replaced the
\* population
C5_Witness ==
  /\ pc = "gen"
  /\ gen > 0
  /\ config.populationSize = MaxPopulationSize
  /\ Len(population) = MaxPopulationSize
  /\ population[2] # population[1]

\* C9: for populationSize >= 2 run is never cut short: it is not rejected,
\* when it returns it has made exactly trials x maxGenerations select calls,
\* and every Breed step leaves the elite and populationSize - 1 children.
C9_RunsToCompletion ==
  config.populationSize >= 2 =>
    /\ pc # "rejected"
    /\ pc = "done" => selectCount = config.trials * config.maxGenerations
    /\ pc = "gen" /\ gen > 0 => Len(population) = 1 + (config.populationSize - 1)

\* C20: breeding mutates each child at most once: a child added to the new
\* population is the unmodified crossover result or the result of exactly one
\* mutate() call on it, and both its parents are members of the current
\* survivor pool.
C20_AtMostOneMutation ==
  (pc = "offspring" /\ breeding # Null) =>
    LET child == newPopulation[Len(newPopulation)]
        crossed == {c.blocks : c \in {o \in crossover(breeding.parent1,
                                                       breeding.parent2,
                                                       testInputs) : ~o.threw}}
    IN /\ breeding.parent1 \in Range(population)
       /\ breeding.parent2 \in Range(population)
       /\ breeding.mutationCount <= 1
       /\ \/ child \in crossed
          \/ \E c \in crossed : Done(child) \in mutate(c, testInputs)

\* the elite of the generation is where the claim puts it: first in the
\* population under construction and first in the population that replaced
\* the survivors
EliteCarried ==
  /\ pc = "offspring" =>
       (Len(newPopulation) > 0 /\ newPopulation[1] = lastSelect.top)
  /\ (pc = "gen" /\ gen > 0) =>
       (Len(population) > 0 /\ population[1] = lastSelect.top)

\* the generation loop of the trial has ended
TrialEnded == pc = "gen" /\ ~(gen < config.maxGenerations)

-----------------------------------------------------------------------------
(* Block objects and their identity: the heap is the sequence of the block *)
(* objects allocated so far, a stored block holds its nested blocks by     *)
(* reference, and a Program's blocks array is an array of references.      *)

\* a reference to the block object at an address of the heap
Ref(a) == [t |-> "ref", at |-> a]
IsRef(v) == v.t = "ref"

\* the value a stored value denotes, every reference read through
RECURSIVE deref(_, _)
deref(heap, v) ==
  IF IsRef(v) THEN deref(heap, heap[v.at])
  ELSE IF IsObj(v)
  THEN [v EXCEPT !.value = deref(heap, v.value), !.inputs = deref(heap, v.inputs)]
  ELSE IF IsArr(v) THEN Arr([i \in DOMAIN v.a |-> deref(heap, v.a[i])])
  ELSE v

\* the addresses of the block objects a stored value reaches
RECURSIVE objectsOf(_, _)
objectsOf(heap, v) ==
  IF IsRef(v) THEN {v.at} \cup objectsOf(heap, heap[v.at])
  ELSE IF IsObj(v) THEN objectsOf(heap, v.value) \cup objectsOf(heap, v.inputs)
  ELSE IF IsArr(v) THEN UNION {objectsOf(heap, v.a[i]) : i \in DOMAIN v.a}
  ELSE {}

\* a value built anew (an object literal, the result of JSON.parse): every
\* block of it becomes a new object of the heap
RECURSIVE store(_, _)
store(heap, v) ==
  IF IsObj(v)
  THEN LET val == store(heap, v.value)
           ins == store(val.heap, v.inputs)
           obj == [v EXCEPT !.value = val.stored, !.inputs = ins.stored]
       IN [heap |-> Append(ins.heap, obj), stored |-> Ref(Len(ins.heap) + 1)]
  ELSE IF IsArr(v)
  THEN LET upTo[i \in 0..Len(v.a)] ==
             IF i = 0 THEN [heap |-> heap, a |-> <<>>]
             ELSE LET e == store(upTo[i - 1].heap, v.a[i])
                  IN [heap |-> e.heap, a |-> Append(upTo[i - 1].a, e.stored)]
       IN [heap |-> upTo[Len(v.a)].heap, stored |-> Arr(upTo[Len(v.a)].a)]
  ELSE [heap |-> heap, stored |-> v]

\* new ProgenyProgram(blocks, inputVariables) on stored blocks: the
\* constructor keeps the block objects it is given when all of them are
\* valid, and builds its default or fallback blocks otherwise
constructOnHeap(heap, blocks, inputVariables) ==
  {IF c.threw THEN [threw |-> TRUE, heap |-> heap, stored |-> blocks]
   ELSE IF c.blocks = given
   THEN [threw |-> FALSE, heap |-> heap, stored |-> blocks]
   ELSE [threw |-> FALSE] @@ store(heap, Arr(c.blocks)) :
     <<given, c>> \in {<<g, constructor(g, inputVariables)>> :
                         g \in {deref(heap, blocks).a}}}

\* Parents of a breeding step, each starting with a set statement
BreedingPool ==
  {<<SetBlock("out", NumberOutputBlock), ReturnOut>>,
   <<SetBlock("out", Str("x")), ReturnOut>>,
   <<SetBlock("v0", Block("add", <<Str("x"), Str("y")>>)),
     SetBlock("out", Str("v0")), ReturnOut>>}

\* two members of the population, the first of them the elite
StartBreeding ==
  /\ call = Idle
  /\ \E p1 \in BreedingPool, p2 \in BreedingPool :
       LET s1 == store(<<>>, Arr(p1))
           s2 == store(s1.heap, Arr(p2))
       IN /\ call' = [op |-> "breed", program1 |-> p1, program2 |-> p2,
                      inputVariables |-> InputVars]
          /\ ret' = [heap |-> s2.heap, program1 |-> s1.stored,
                     program2 |-> s2.stored, child |-> Null, mutations |-> 0]
  /\ UNCHANGED runVars

\* crossover of genetic-algorithm.ts: both segments are copied through JSON
CrossoverCopying ==
  /\ call # Idle
  /\ call.op = "breed"
  /\ ret.child = Null
  /\ \E cp1 \in 0..Len(ret.program1.a), cp2 \in 0..Len(ret.program2.a) :
       \E c \in {crossoverAt(deref(ret.heap, ret.program1).a,
                              deref(ret.heap, ret.program2).a,
                              cp1, cp2, call.inputVariables)} :
         /\ ~c.threw
         /\ \E s \in {store(ret.heap, Arr(c.blocks))} :
              ret' = [ret EXCEPT !.heap = s.heap, !.child = s.stored]
  /\ UNCHANGED <<call, runVars>>

defaultNumericValue == 0

\* program.blocks[0]?.value
firstValue(heap, program) ==
  IF Len(program.a) = 0 THEN Undef ELSE heap[program.a[1].at].value

isValueSuitableForNumeric(heap, val) ==
  /\ ~IsNullish(val)
  /\ ~IsBool(val)
  /\ ~(IsRef(val) /\ OutputOf(heap[val.at].blockName) = "boolean")

\* crossover of genetic-algorithm.js: the child is { set out := value } and
\* { return out }, where value is the value of the first block of one of the
\* parents, taken as it is
CrossoverSharing ==
  /\ call # Idle
  /\ call.op = "breed"
  /\ ret.child = Null
  /\ \E firstParentFirst \in BOOLEAN :
       LET p1Value == firstValue(ret.heap, ret.program1)
           p2Value == firstValue(ret.heap, ret.program2)
           val1Suitable == isValueSuitableForNumeric(ret.heap, p1Value)
           val2Suitable == isValueSuitableForNumeric(ret.heap, p2Value)
           valueForChild ==
             IF firstParentFirst
             THEN IF val1Suitable THEN p1Value
                  ELSE IF val2Suitable THEN p2Value
                  ELSE Num(defaultNumericValue)
             ELSE IF val2Suitable THEN p2Value
                  ELSE IF val1Suitable THEN p1Value
                  ELSE Num(defaultNumericValue)
           setAt == Len(ret.heap) + 1
           childHeap == ret.heap \o <<SetBlock("out", valueForChild), ReturnOut>>
           childBlocks == Arr(<<Ref(setAt), Ref(setAt + 1)>>)
       IN \E c \in constructOnHeap(childHeap, childBlocks, call.inputVariables) :
            /\ ~c.threw
            /\ ret' = [ret EXCEPT !.heap = c.heap, !.child = c.stored]
  /\ UNCHANGED <<call, runVars>>

\* the mutate() calls made on a child
MaxChildMutations == 2

\* the values a value mutation draws
MutatedValues ==
  {v \in generateInitialValue(InputVars, 0, 2) : ~IsObj(v)} \cup {NumberOutputBlock}

\* the end of mutate on the heap: this.blocks becomes the array of the valid
\* blocks of newBlocks, or two new default blocks when none or no Return is
\* left; when isValidBlock raises, this.blocks stays as it was
finishOnHeap(heap, newBlocks, oldBlocks, inputVariables) ==
  LET outcome(i) == isValidBlockOutcome(deref(heap, newBlocks.a[i]), inputVariables)
  IN UNION
       {IF \E i \in DOMAIN valid : valid[i] = "throw"
        THEN {[heap |-> heap, stored |-> oldBlocks]}
        ELSE UNION
          {IF Len(kept) = 0 \/ ~hasReturn(deref(heap, Arr(kept)).a)
           THEN {store(heap, Arr(<<SetBlock("out", v), ReturnOut>>)) :
                   v \in MutatedValues}
           ELSE {[heap |-> heap, stored |-> Arr(kept)]} :
             kept \in {[k \in 1..Cardinality({i \in DOMAIN valid : valid[i] = "true"}) |->
                          newBlocks.a[CHOOSE i \in DOMAIN valid :
                                        /\ valid[i] = "true"
                                        /\ Cardinality({j \in 1..i : valid[j] = "true"}) = k]]}} :
          valid \in {[i \in DOMAIN newBlocks.a |-> outcome(i)]}}

\* child.mutate(), value mutation: the value of one of the set blocks of the
\* child is overwritten in place
MutateValue ==
  /\ call # Idle
  /\ call.op = "breed"
  /\ ret.child # Null
  /\ ret.mutations < MaxChildMutations
  /\ \E r \in {x \in Range(ret.child.a) : ret.heap[x.at].blockName = "set"},
        v \in MutatedValues :
       \E written \in {[s.heap EXCEPT ![r.at].value = s.stored] :
                         s \in {store(ret.heap, v)}} :
         \E done \in finishOnHeap(written, ret.child, ret.child,
                                   call.inputVariables) :
            ret' = [ret EXCEPT !.heap = done.heap, !.child = done.stored,
                             !.mutations = ret.mutations + 1]
  /\ UNCHANGED <<call, runVars>>

\* child.mutate(), removal: a block other than the last leaves the array of
\* the child unless it sets a variable that is live after it
MutateRemoval ==
  /\ call # Idle
  /\ call.op = "breed"
  /\ ret.child # Null
  /\ ret.mutations < MaxChildMutations
  /\ Len(ret.child.a) > 2
  /\ \E idx \in 1..(Len(ret.child.a) - 1) :
       \E blocks \in {deref(ret.heap, ret.child).a} :
          /\ ~(/\ blocks[idx].blockName = "set"
               /\ blocks[idx].var.v \in
                    getLiveVarsAtPositions(blocks, call.inputVariables)[idx])
          /\ \E done \in finishOnHeap(ret.heap,
                                      Arr(Splice(ret.child.a, idx, <<>>)),
                                      ret.child, call.inputVariables) :
               ret' = [ret EXCEPT !.heap = done.heap, !.child = done.stored,
                             !.mutations = ret.mutations + 1]
  /\ UNCHANGED <<call, runVars>>

InitBreeding == call = Idle /\ ret = Undef /\ NotRunning

NextBreeding ==
  \/ StartBreeding
  \/ CrossoverCopying
  \/ CrossoverSharing
  \/ MutateValue
  \/ MutateRemoval

SpecBreeding == InitBreeding /\ [][NextBreeding]_vars

\* the child shares no block object with a parent
NoSharedBlock ==
  objectsOf(ret.heap, ret.child) \cap
    (objectsOf(ret.heap, ret.program1) \cup objectsOf(ret.heap, ret.program2)) = {}

\* the blocks of the parents are what they were before the crossover
ParentsUnchanged ==
  /\ deref(ret.heap, ret.program1).a = call.program1
  /\ deref(ret.heap, ret.program2).a = call.program2

\* C17: no aliasing across population members: crossover leaves the block
\* lists of both parents unchanged and the child shares no block object with
\* either parent, so no sequence of mutate() calls on the child changes the
\* blocks of its parents, of the elite or of another population member.
C17_NoAliasing ==
  (call.op = "breed" /\ ret.child # Null) =>
    /\ NoSharedBlock
    /\ ParentsUnchanged

-----------------------------------------------------------------------------
(* Recovery from an empty population *)

\* the generation loop of the trial is left for the next trial, or run
\* returns after the last one
TrialAbandoned ==
  /\ trial' = trial + 1
  /\ trialResults' = trialResults
  /\ bestProgram' = bestProgram
  /\ IF trial + 1 < config.trials THEN pc' = "trial"
     ELSE pc' = "done" /\ returned' = bestProgram

\* C21: when the population is empty after select, the engine initializes
\* again once if this is not the last generation; when the population is
\* still empty, or this is the last generation, the generation loop of the
\* trial is abandoned and run goes on with the next trial without throwing.
C21_EmptyRecovery ==
  [][(pc = "selected" /\ Len(population) = 0) =>
       /\ pc' # "rejected"
       /\ IF gen < config.maxGenerations - 1
          THEN /\ population' \in initialize(config.populationSize, testInputs)
               /\ selectCount' = selectCount
               /\ IF Len(population') = 0 THEN TrialAbandoned
                  ELSE pc' = "reinitialized" /\ trial' = trial
          ELSE /\ population' = population
               /\ TrialAbandoned]_vars

\* the second initialization left the population empty and the trial was
\* abandoned for the next one
C21_Witness ==
  /\ pc = "trial"
  /\ trial > 0
  /\ config.populationSize = 0
  /\ config.maxGenerations > 1
  /\ selectCount = trial
  /\ trialResults = <<>>

-----------------------------------------------------------------------------
(* Calls of resolveInput *)

\* what a call of resolveInput does: it returns a value, or the isValidBlock
\* it calls on an object input raises
resolveInputOutcome(input, state, expectedType, inputVariables) ==
  IF IsObj(input) /\ ~isValidBlock(input, inputVariables)
  THEN [threw |-> TRUE, value |-> Undef]
  ELSE [threw |-> FALSE,
        value |-> resolveInput(input, state, expectedType, inputVariables)]

\* States of a run: the initial State for two inputs, and one in which a
\* Set has defined b0 and a boolean run-time input is bound to y
ResolveStates ==
  {initialState(r, InputVars) : r \in RunInputs} \cup
  {[vars |-> [n \in Range(variables) \cup Range(InputVars) \cup {"b0"} |->
               IF n \in {"b0", "y"} THEN Bool(TRUE) ELSE Num(3)],
    output |-> Num(0)]}

CallResolveInput ==
  /\ call = Idle
  /\ \E input \in ValuePool, state \in ResolveStates,
        expectedType \in ExpectedTypes :
       /\ call' = [op |-> "resolveInput", input |-> input, state |-> state,
                   expectedType |-> expectedType, inputVariables |-> InputVars]
       /\ ret' = resolveInputOutcome(input, state, expectedType, InputVars)
       /\ UNCHANGED runVars

InitResolve == call = Idle /\ ret = Undef /\ NotRunning

NextResolve == CallResolveInput

SpecResolve == InitResolve /\ [][NextResolve]_vars

\* the input is null or undefined, names a variable the State does not
\* define, or names a variable whose value has the other type
DefaultCase ==
  \/ IsNullish(call.input)
  \/ /\ IsStr(call.input)
     /\ LET value == varOf(call.state, call.input.v)
        IN \/ value = Undef
           \/ call.expectedType = "number" /\ IsBool(value)
           \/ call.expectedType = "boolean" /\ ~IsBool(value)

\* C24: resolveInput never throws; it returns a number when expectedType is
\* number and a boolean when expectedType is boolean; when the value is null
\* or undefined, names an undefined variable or names a variable whose
\* current value has the other type, it returns 0 or false.
C24_ResolveTypeSafe ==
  (call.op = "resolveInput" /\ call.expectedType \in {"number", "boolean"}) =>
    /\ ~ret.threw
    /\ call.expectedType = "number" => typeofNumber(ret.value)
    /\ call.expectedType = "boolean" => IsBool(ret.value)
    /\ DefaultCase =>
         ret.value = IF call.expectedType = "boolean" THEN Bool(FALSE) ELSE Num(0)

\* C30: run returns a value of numeric type for every Program and every
\* runTimeInputs mapping: state.output starts as a number and every block
\* leaves it one, so evaluate never sees a result that is not a number.
C30_RunReturnsNumber ==
  call.op \in {"run", "runBooleanInput"} =>
    /\ typeofNumber(ret.output)
    /\ \A i \in DOMAIN ret.states : typeofNumber(ret.states[i].output)

\* a run that returned the input x while x held a boolean
C30_Witness ==
  /\ call.op = "runBooleanInput"
  /\ call.blocks[Len(call.blocks)] = ReturnBlock(Str("x"))
  /\ IsBool(ret.states[Len(ret.states)].vars["x"])
  /\ ret.output = Num(0)

-----------------------------------------------------------------------------
(* Calls of the generators *)

\* the constants the generator calls below draw
GenConstants == {0, 1}
\* the depths the generators are called at, and the values of maxDepth:
\* mutate and generateInitialValue pass 2, the default
GenDepths == {0, 1, 2, 3}
GenMaxDepths == {0, 1, 2}

CallGenerateRandomBlock ==
  /\ call = Idle
  /\ \E depth \in GenDepths, maxDepth \in GenMaxDepths, isAction \in BOOLEAN,
        targetVar \in {Null, Str("v0")}, inputVariables \in {<<>>, InputVars} :
       /\ call' = [op |-> "generateRandomBlock", depth |-> depth,
                   maxDepth |-> maxDepth, isAction |-> isAction,
                   targetVar |-> targetVar, inputVariables |-> inputVariables]
       /\ ret' \in generateRandomBlockOf(DOMAIN blockDefs, GenConstants, depth,
                                         maxDepth, isAction, targetVar,
                                         inputVariables)
       /\ UNCHANGED runVars

CallGenerateInput ==
  /\ call = Idle
  /\ \E type \in ExpectedTypes \cup {"action[]"}, depth \in GenDepths,
        maxDepth \in GenMaxDepths, inputVariables \in {<<>>, InputVars} :
       /\ call' = [op |-> "generateInput", type |-> type, depth |-> depth,
                   maxDepth |-> maxDepth, inputVariables |-> inputVariables]
       /\ ret' \in generateInputOf(DOMAIN blockDefs, GenConstants, type, depth,
                                   maxDepth, inputVariables)
       /\ UNCHANGED runVars

InitGenerate == call = Idle /\ ret = Undef /\ NotRunning

NextGenerate == CallGenerateRandomBlock \/ CallGenerateInput

SpecGenerate == InitGenerate /\ [][NextGenerate]_vars

\* C25: for all arguments and all random choices, generateRandomBlock returns
\* a block that passes isValidBlock, and generateInput returns a value that
\* passes isValidValue for the requested slot type (number, boolean, variable
\* or operator token).
C25_GeneratorValidity ==
  /\ call.op = "generateRandomBlock" =>
       /\ ~ret.threw
       /\ isValidBlock(ret.value, call.inputVariables)
  /\ (call.op = "generateInput" /\ call.type \in ExpectedTypes) =>
       /\ ~ret.threw
       /\ isValidValue(ret.value, call.type, call.inputVariables)

maxOf(S) == CHOOSE m \in S : \A x \in S : x <= m

RECURSIVE nestedBlocks(_)
\* how many levels of Blocks a generated value holds: none for a terminal,
\* one more than its deepest slot for a Block
nestedBlocks(value) ==
  IF ~IsObj(value) THEN 0
  ELSE IF ~IsArr(value.inputs) \/ Len(value.inputs.a) = 0 THEN 1
  ELSE 1 + maxOf({nestedBlocks(value.inputs.a[i]) : i \in DOMAIN value.inputs.a})

\* the deepest level of Blocks nested in the slots of a Block
nestedIn(block) ==
  IF ~IsArr(block.inputs) \/ Len(block.inputs.a) = 0 THEN 0
  ELSE maxOf({nestedBlocks(block.inputs.a[i]) : i \in DOMAIN block.inputs.a})

\* C26: generateInput called with depth >= maxDepth returns a terminal
\* (variable name, constant or operator token), never a nested Block; the
\* recursion generateInput <-> generateRandomBlock ends for every maxDepth,
\* and the Blocks nested in a generated expression are at most maxDepth
\* levels deep.
C26_BoundedGeneration ==
  /\ (call.op = "generateInput" /\ call.depth >= call.maxDepth) =>
       /\ ~ret.threw
       /\ IsNum(ret.value) \/ IsStr(ret.value) \/ IsBool(ret.value)
  /\ (call.op = "generateInput" /\ ~ret.threw) =>
       nestedBlocks(ret.value) <= call.maxDepth
  /\ (call.op = "generateRandomBlock" /\ ~ret.threw) =>
       nestedIn(ret.value) <= call.maxDepth

\* generateRandomBlock(0, 2, ...) returned a Block that holds a nested Block
\* whose slots, generated at depth 3, are all terminals
C26_Witness ==
  /\ call.op = "generateRandomBlock"
  /\ call.depth = 0 /\ call.maxDepth = 2
  /\ ~ret.threw
  /\ IsArr(ret.value.inputs)
  /\ \E i \in DOMAIN ret.value.inputs.a :
       /\ IsObj(ret.value.inputs.a[i])
       /\ IsArr(ret.value.inputs.a[i].inputs)
       /\ Len(ret.value.inputs.a[i].inputs.a) = 2
       /\ nestedBlocks(ret.value.inputs.a[i]) = 1

-----------------------------------------------------------------------------
(* The trailing Return of the population's programs *)

endsWithReturnOut(blocks) == Len(blocks) > 0 /\ blocks[Len(blocks)] = ReturnOut

\* C27: in every reachable state of Progeny.run (after initialize, after any
\* crossover, after any number of mutate() calls) every member of the
\* population, and every child already bred for the next one, has a
\* non-empty block list whose last block is Return(out).
C27_TrailingReturn ==
  /\ \A i \in DOMAIN population : endsWithReturnOut(population[i])
  /\ \A i \in DOMAIN newPopulation : endsWithReturnOut(newPopulation[i])

\* a child that went through mutate() and holds a top-level reporter block,
\* which only a mutation puts there, has joined the next population
C27_Witness ==
  /\ breeding # Null
  /\ breeding.mutationCount >= 1
  /\ Len(newPopulation) > 0
  /\ \E k \in DOMAIN newPopulation[Len(newPopulation)] :
       newPopulation[Len(newPopulation)][k].blockName \notin {"set", "return"}
  /\ endsWithReturnOut(newPopulation[Len(newPopulation)])

-----------------------------------------------------------------------------
(* A Set block followed by a read of its variable *)

\* names isValidProgramVariableName accepts as the target of a Set block:
\* members of `variables`, input variables, and names of the dynamic pattern
SetTargets == {"out", "v0", "v2", "x", "y", "v3", "v10", "b0", "b3"}

\* values of Set blocks
SetValues ==
  {Num(5), Num(-1), Str("x"), Str("y"), NumberOutputBlock, Bool(TRUE),
   Bool(FALSE), BooleanOutputBlock}

\* the two reads of a variable: by name and by a Get block
ReadOf(form, name) == IF form = "get" THEN Block("get", <<Str(name)>>) ELSE Str(name)

\* executeBlock on Set(name, value) in the State a run starts from, then
\* resolveInput on a read of name in the State the Set left
CallSetThenRead ==
  /\ call = Idle
  /\ \E name \in SetTargets, value \in SetValues, form \in {"name", "get"},
        runTimeInputs \in RunInputs :
       LET type == IF startsWithB(name) THEN "boolean" ELSE "number"
           before == initialState(runTimeInputs, InputVars)
           after == executeBlock(SetBlock(name, value), before, InputVars)
       IN /\ isValidBlock(SetBlock(name, value), InputVars)
          /\ call' = [op |-> "setThenRead", name |-> name, value |-> value,
                      form |-> form, type |-> type,
                      runTimeInputs |-> runTimeInputs]
          /\ ret' = [stored |-> resolveInput(value, before, type, InputVars),
                     state |-> after,
                     validated |-> isValidValue(ReadOf(form, name), type, InputVars),
                     read |-> resolveInput(ReadOf(form, name), after, type,
                                           InputVars)]
          /\ UNCHANGED runVars

InitRoundTrip == call = Idle /\ ret = Undef /\ NotRunning

NextRoundTrip == CallSetThenRead

SpecRoundTrip == InitRoundTrip /\ [][NextRoundTrip]_vars

\* C28: for every name the validator accepts as a Set target (known names,
\* input variables, names matching out|v<digits>|b<digits>), after Set(n, e)
\* executed, a later validated read of n, by name or by a Get block, resolves
\* to the value the Set stored, not to a default.
C28_SetGetRoundTrip ==
  (call.op = "setThenRead" /\ ret.validated) =>
    /\ varOf(ret.state, call.name) = ret.stored
    /\ ret.read = ret.stored

-----------------------------------------------------------------------------
(* The catalog rules applied to reporter blocks *)

\* slot values of the blocks the rules are applied to
RuleNumbers ==
  {Num(0), Num(1), Num(2), Num(3), Num(-1), Str("x"), Str("y"),
   Block("negate", <<Str("x")>>)}
RuleBooleans == {Bool(TRUE), Bool(FALSE), BooleanOutputBlock}

RuleBlocks ==
  {Block(k, <<a, b>>) :
     k \in {"add", "subtract", "multiply", "divide", "power", "modulo"},
     a \in RuleNumbers, b \in RuleNumbers}
  \cup {Block(k, <<a>>) :
          k \in {"absolute", "negate"},
          a \in RuleNumbers \cup {Block("absolute", <<Str("y")>>)}}
  \cup {Block(k, <<a, b>>) : k \in {"and", "or"},
                             a \in RuleBooleans, b \in RuleBooleans}
  \cup {Block("not", <<a>>) : a \in RuleBooleans}

\* the guard rule i of kind k carries, under whichever property name: the
\* third rule of divide holds it as conditionWalter and the first rule of
\* power as condition_markup (blocks.js:256-261, 273-276)
ruleGuard(k, i, block) ==
  IF k = "divide" /\ i = 3
  THEN asCondition(/\ IsNum(block.inputs.a[1]) /\ IsNum(block.inputs.a[2])
                   /\ block.inputs.a[2] # Num(0))
  ELSE IF k = "power" /\ i = 1
  THEN asCondition(block.inputs.a[2] = Num(1))
  ELSE ruleCondition(k, i, block)

\* the same number or boolean
sameValue(u, v) ==
  \/ u = v
  \/ u.t = "rat" /\ v.t = "rat" /\ u.n * v.d = v.n * u.d

\* One application of a rule as mutate applies it: the rule passed the filter
\* `typeof m.condition === 'function' ? m.condition(block) : true`, and its
\* change is evaluated in a State next to the block it rewrites.
CallRule ==
  /\ call = Idle
  /\ \E block \in RuleBlocks, runTimeInputs \in RunInputs :
       \E i \in 1..ruleCount(block.blockName) :
         LET k == block.blockName
             state == initialState(runTimeInputs, InputVars)
             change == ruleChange(k, i, block)
         IN /\ isValidBlock(block, InputVars)
            /\ ruleCondition(k, i, block) = "true"
            /\ call' = [op |-> "rule", block |-> block, rule |-> i,
                        runTimeInputs |-> runTimeInputs]
            /\ ret' = [threw |-> change.typeError,
                       guard |-> ruleGuard(k, i, block),
                       before |-> reporterValue(block, state, InputVars),
                       after |-> IF change.typeError \/ Len(change.result) # 1
                                 THEN Undef
                                 ELSE resolveInput(change.result[1], state,
                                                   OutputOf(k), InputVars)]
            /\ UNCHANGED runVars

InitRules == call = Idle /\ ret = Undef /\ NotRunning

NextRules == CallRule

SpecRules == InitRules /\ [][NextRules]_vars

\* C29: a catalog rule is applied to a block only when the rule's guard holds
\* for that block, and for every block on which the guard holds and every
\* variable environment the rewritten expression evaluates to the same value
\* as the original block.
C29_RulesPreserveValue ==
  call.op = "rule" =>
    /\ ret.guard = "true"
    /\ ~ret.threw
    /\ sameValue(ret.before, ret.after)

====
